---- MODULE Spec2Model ----
(***************************************************************************)
(* A model of go-pkginstall: the Path Mapper, the Path Validator, the      *)
(* Symlink Processor and the Builder.  Paths and script text are TLA+      *)
(* strings (sequences of characters); the helpers below are the            *)
(* functions of Go's strings and path/filepath packages the code calls.    *)
(***************************************************************************)
EXTENDS Integers, Sequences, FiniteSets, TLC

VARIABLES
    pm,         \* PathMapper under test (its configuration)
    pmCalls,    \* TransformPath calls made so far: {[path, out, needsSymlink, err]}
    vCalls,     \* Validator calls made so far: {[fn, path, err]}
    symlinkQueue,   \* SymlinkProcessor.symlinkQueue
    queueMutex,     \* SymlinkProcessor.queueMutex: 0 when free, else the holder
    dryRun,         \* SymlinkProcessor.dryRun
    hostFS,         \* the host filesystem: path -> "dir" | "file" | "link"
    thr,            \* the callers of the processor: each one's position and locals
    opsStarted,     \* processor calls started so far
    b,              \* the Builder: Package, Scripts, ExcludeDirs, PreservePerms
    sourceTree,     \* the paths under Builder.SourceDir, relative to it
    staging,        \* the tree under Builder.BuildDir: path -> entry; empty when removed
    build,          \* the goroutine running Build: position, walk index, error
    caller,         \* the caller of SetMaintainerScript and BuildWithTimeout
    walkLog,        \* what copyFiles did with each entry it visited
    archived,       \* the trees dpkg-deb was run on
    scan            \* a ValidateScript call: validator, script, position, counts, result

mapperVars == <<pm, pmCalls>>
validatorVars == <<vCalls>>
processorVars == <<symlinkQueue, queueMutex, dryRun, hostFS, thr, opsStarted>>
builderVars == <<b, sourceTree, staging, build, caller, walkLog, archived>>
vars == <<pm, pmCalls, vCalls, symlinkQueue, queueMutex, dryRun, hostFS, thr,
          opsStarted, b, sourceTree, staging, build, caller, walkLog, archived,
          scan>>

(***************************************************************************)
(* Go library functions                                                    *)
(***************************************************************************)

\* strings.HasPrefix
HasPrefix(s, p) == Len(p) <= Len(s) /\ SubSeq(s, 1, Len(p)) = p

\* strings.HasSuffix
HasSuffix(s, p) == Len(p) <= Len(s) /\ SubSeq(s, Len(s) - Len(p) + 1, Len(s)) = p

\* strings.Contains
Contains(s, t) == \E i \in 1..(Len(s) - Len(t) + 1) : SubSeq(s, i, i + Len(t) - 1) = t

\* strings.Index, 1-based; 0 when t does not occur in s
Index(s, t) ==
    IF Contains(s, t)
    THEN CHOOSE i \in 1..(Len(s) - Len(t) + 1) :
            /\ SubSeq(s, i, i + Len(t) - 1) = t
            /\ \A j \in 1..(i - 1) : SubSeq(s, j, j + Len(t) - 1) # t
    ELSE 0

\* strings.Replace(s, old, new, 1)
ReplaceFirst(s, old, new) ==
    LET i == Index(s, old)
    IN  IF i = 0 THEN s
        ELSE SubSeq(s, 1, i - 1) \o new \o SubSeq(s, i + Len(old), Len(s))

\* strings.Split(s, "/")
RECURSIVE Split(_)
Split(s) ==
    LET i == Index(s, "/")
    IN  IF i = 0 THEN <<s>>
        ELSE <<SubSeq(s, 1, i - 1)>> \o Split(SubSeq(s, i + 1, Len(s)))

\* strings.Join(parts, "/")
RECURSIVE Join(_)
Join(parts) ==
    IF parts = <<>> THEN ""
    ELSE IF Len(parts) = 1 THEN parts[1]
    ELSE parts[1] \o "/" \o Join(Tail(parts))

\* The element loop of filepath.Clean: drop empty and "." elements, let ".."
\* remove the element before it, drop ".." at the root of a rooted path and
\* keep it at the start of a relative one.
RECURSIVE CleanSegs(_, _, _)
CleanSegs(parts, rooted, acc) ==
    IF parts = <<>> THEN acc
    ELSE LET h == Head(parts)
             t == Tail(parts)
         IN  IF h = "" \/ h = "." THEN CleanSegs(t, rooted, acc)
             ELSE IF h = ".."
                  THEN IF Len(acc) > 0 /\ acc[Len(acc)] # ".."
                       THEN CleanSegs(t, rooted, SubSeq(acc, 1, Len(acc) - 1))
                       ELSE IF rooted THEN CleanSegs(t, rooted, acc)
                       ELSE CleanSegs(t, rooted, Append(acc, ".."))
                  ELSE CleanSegs(t, rooted, Append(acc, h))

\* filepath.Clean (Unix)
Clean(path) ==
    IF path = "" THEN "."
    ELSE LET rooted == HasPrefix(path, "/")
             segs == CleanSegs(Split(path), rooted, <<>>)
         IN  IF rooted THEN "/" \o Join(segs)
             ELSE IF segs = <<>> THEN "." ELSE Join(segs)

\* filepath.IsAbs (Unix)
IsAbs(path) == HasPrefix(path, "/")

(***************************************************************************)
(* Path Mapper                                                             *)
(***************************************************************************)

\* NewPathMapper: the default mapping table, symlink directories and root
DefaultSystemDirs ==
    [d \in {"/bin", "/etc", "/var", "/usr", "/lib", "/lib64", "/sbin",
            "/home", "/share", "/include"} |-> "/opt" \o d]

DefaultSymlinkDirs ==
    <<"/etc/systemd/system", "/etc/init.d", "/usr/share/applications",
      "/usr/share/icons", "/usr/share/man", "/usr/local/bin", "/usr/bin", "/bin">>

NewPathMapper ==
    [systemDirs |-> DefaultSystemDirs,
     symlinkDirs |-> DefaultSymlinkDirs,
     baseTransformDir |-> "/opt"]

\* WithBaseTransformDir: sets the root only; the table's values stay as they are
WithBaseTransformDir(m, dir) ==
    IF dir # "" THEN [m EXCEPT !.baseTransformDir = dir] ELSE m

\* WithCustomMapping
WithCustomMapping(m, source, target) ==
    IF source # "" /\ target # ""
    THEN [m EXCEPT !.systemDirs = (source :> target) @@ m.systemDirs]
    ELSE m

\* WithSymlinkDir
WithSymlinkDir(m, dir) ==
    IF dir # "" THEN [m EXCEPT !.symlinkDirs = Append(m.symlinkDirs, dir)] ELSE m

\* PathMapper.IsTransformedPath
IsTransformedPath(m, path) ==
    IF path = "" THEN FALSE
    ELSE HasPrefix(Clean(path), m.baseTransformDir)

\* PathMapper.IsSystemPath
IsSystemPath(m, path) ==
    IF path = "" THEN FALSE
    ELSE LET norm == Clean(path)
         IN  \E sysDir \in DOMAIN m.systemDirs :
                norm = sysDir \/ HasPrefix(norm, sysDir \o "/")

\* A mutant of shouldCreateSymlink: exact membership, as in
\* SymlinkManager.IsSymlinkAllowed, instead of "the directory or a descendant".
shouldCreateSymlinkExact(m, path) ==
    \E i \in 1..Len(m.symlinkDirs) : path = m.symlinkDirs[i]

\* PathMapper.shouldCreateSymlink
shouldCreateSymlink(m, path) ==
    \E i \in 1..Len(m.symlinkDirs) :
        path = m.symlinkDirs[i] \/ HasPrefix(path, m.symlinkDirs[i] \o "/")

ErrEmptyPath == "cannot transform empty path"
ErrNoRule == "no transformation rule matched"

\* PathMapper.TransformPath: the set of results the call can return.  The loop
\* ranges over a Go map, whose iteration order is unspecified: the rule applied
\* is any one of the matching entries.
TransformPath(m, path) ==
    IF path = ""
    THEN {[out |-> "", needsSymlink |-> FALSE, err |-> ErrEmptyPath]}
    ELSE LET normPath == Clean(path)
             matching == {sysDir \in DOMAIN m.systemDirs :
                            normPath = sysDir \/ HasPrefix(normPath, sysDir \o "/")}
         IN  IF IsTransformedPath(m, normPath)
             THEN {[out |-> normPath, needsSymlink |-> FALSE, err |-> ""]}
             ELSE IF matching = {}
             THEN {[out |-> "", needsSymlink |-> FALSE, err |-> ErrNoRule]}
             ELSE {[out |-> ReplaceFirst(normPath, sysDir, m.systemDirs[sysDir]),
                    needsSymlink |-> shouldCreateSymlink(m, normPath),
                    err |-> ""] : sysDir \in matching}

(***************************************************************************)
(* Path Validator                                                          *)
(***************************************************************************)

\* Characters that cannot be written in a TLA+ string literal, each stood for
\* by one character that occurs in no other pattern and in no input path.
\* (A fullwidth character is three bytes in the Go string; only the length
\* check of ValidatePath could tell.)
FullwidthPeriod == "^"     \* U+FF0E
FullwidthSolidus == "&"    \* U+FF0F
NulByte == "@"             \* the byte 0x00
Backtick == "!"            \* the backtick, U+0060

\* DefaultSecurityPolicy
DefaultSecurityPolicy ==
    [ForbiddenPaths |-> <<"/bin", "/sbin", "/usr/bin", "/usr/sbin",
                          "/boot", "/proc", "/sys", "/dev">>,
     RestrictedPaths |-> <<"/etc/passwd", "/etc/shadow", "/etc/sudoers",
                           "/etc/ssh", "/etc/ssl/private">>,
     AllowedExtensions |-> {".txt", ".conf", ".service", ".socket", ".target",
                            ".sh", ".xml", ".json", ".yml", ".yaml", ".desktop",
                            ".png", ".svg", ".jpg", ".jpeg", ".gif", ".md",
                            ".html", ".css", ".js"},
     MaxPathLength |-> 4096,
     DisallowDotDot |-> TRUE]

\* NewValidator
\* Whether the target is, or lies under, a forbidden path of the policy
UnderForbidden(target) ==
    \E i \in 1..Len(DefaultSecurityPolicy.ForbiddenPaths) :
        \/ target = DefaultSecurityPolicy.ForbiddenPaths[i]
        \/ HasPrefix(target, DefaultSecurityPolicy.ForbiddenPaths[i] \o "/")

\* A mutant of NewValidator: the policy forbids no path
NewValidatorNothingForbidden ==
    [policy |-> [DefaultSecurityPolicy EXCEPT !.ForbiddenPaths = <<>>],
     transformedDir |-> "/opt"]

NewValidator == [policy |-> DefaultSecurityPolicy, transformedDir |-> "/opt"]

\* filepath.Ext: the suffix from the last dot of the last element, or ""
Ext(path) ==
    LET dots == {i \in 1..Len(path) :
                    /\ SubSeq(path, i, i) = "."
                    /\ \A j \in i..Len(path) : SubSeq(path, j, j) # "/"}
    IN  IF dots = {} THEN ""
        ELSE SubSeq(path, CHOOSE i \in dots : \A j \in dots : j <= i, Len(path))

\* Validator.ValidatePath, after the forbidden paths: the warnings handed to
\* v.log, for a restricted path and, outside the transformed directory, for
\* an extension that is not allowed
PathWarnings(v, cleanPath) ==
    (IF \E i \in 1..Len(v.policy.RestrictedPaths) :
            \/ cleanPath = v.policy.RestrictedPaths[i]
            \/ HasPrefix(cleanPath, v.policy.RestrictedPaths[i] \o "/")
     THEN {"Warning: Accessing restricted path"} ELSE {})
    \cup
    (IF /\ ~HasPrefix(cleanPath, v.transformedDir)
        /\ ~HasSuffix(cleanPath, "/")
        /\ Ext(cleanPath) # ""
        /\ Ext(cleanPath) \notin v.policy.AllowedExtensions
     THEN {"Warning: File has potentially unsafe extension"} ELSE {})

\* A mutant of ValidatePath's last two checks: a warning is an error.
PathWarningsFatal(v, cleanPath) ==
    IF PathWarnings(v, cleanPath) # {} THEN "path access restricted" ELSE ""

\* Validator.ValidatePath, the last two checks: the warnings are logged only
PathWarningsLogged(v, cleanPath) == ""

\* A mutant of ValidatePath: the forbidden paths are not looked at
ValidatePathSyntaxOnly(v, path) ==
    IF path = "" THEN "path cannot be empty"
    ELSE IF ~IsAbs(path) THEN "path must be absolute"
    ELSE IF Len(path) > v.policy.MaxPathLength THEN "path exceeds maximum length"
    ELSE IF Clean(path) # path /\ v.policy.DisallowDotDot /\ Contains(path, "..")
         THEN "path contains forbidden '..' sequences"
    ELSE ""

\* Validator.ValidatePath: "" for nil, otherwise the error
ValidatePath(v, path) ==
    LET cleanPath == Clean(path)
    IN  IF path = "" THEN "path cannot be empty"
        ELSE IF ~IsAbs(path) THEN "path must be absolute"
        ELSE IF Len(path) > v.policy.MaxPathLength THEN "path exceeds maximum length"
        ELSE IF cleanPath # path /\ v.policy.DisallowDotDot /\ Contains(path, "..")
             THEN "path contains forbidden '..' sequences"
        ELSE IF \E i \in 1..Len(v.policy.ForbiddenPaths) :
                    \/ cleanPath = v.policy.ForbiddenPaths[i]
                    \/ HasPrefix(cleanPath, v.policy.ForbiddenPaths[i] \o "/")
             THEN "path access forbidden"
        ELSE PathWarningsLogged(v, cleanPath)

\* ValidatePathTraversal: the encoded, and the unicode and backslash, patterns
encodedDotDot ==
    <<"%2e%2e", "%2E%2E",
      "%252e%252e", "%252E%252E",
      "%2e.", ".%2e", "%2e%2e%2f", "%2E%2E%2F",
      "..%2f", "..%2F", ".%2f.", "%2e/", "/%2e%2e",
      "%c0%ae%c0%ae",
      "%c0%ae.", ".%c0%ae">>

unicodeDotDot ==
    <<"..\\", "\\..\\", "\\../", "/..\\",
      FullwidthPeriod \o FullwidthPeriod \o "/",
      ".." \o FullwidthSolidus,
      FullwidthPeriod \o FullwidthPeriod \o FullwidthSolidus,
      "..\\u2215", "..\\u2044">>

unusualElements == <<"~", "$", Backtick>>

\* Whether some pattern of the list occurs in the path
ContainsAny(path, patterns) ==
    \E i \in 1..Len(patterns) : Contains(path, patterns[i])

\* strings.FieldsFunc(path, r is a slash): the non-empty elements
Fields(path) == SelectSeq(Split(path), LAMBDA seg : seg # "")

\* A mutant of ValidatePathTraversal's last check: an unusual element is an
\* error instead of a logged warning.
UnusualElementError(path) ==
    IF ContainsAny(path, unusualElements)
    THEN "path contains potentially problematic element"
    ELSE ""

\* ValidatePathTraversal, the last check: unusual elements are logged only
UnusualElementCheck(path) == ""

\* Validator.ValidatePathTraversal: "" for nil, otherwise the error
ValidatePathTraversal(v, path) ==
    LET normalizedPath == Clean(path)
        parts == Split(normalizedPath)
    IN  IF path = "" THEN "path cannot be empty"
        ELSE IF /\ Contains(normalizedPath, "..")
                /\ \E i \in 1..Len(parts) : parts[i] = ".." /\ i > 1
             THEN "path traversal detected: contains '..' patterns"
        ELSE IF ContainsAny(path, encodedDotDot)
             THEN "encoded path traversal attempt detected"
        ELSE IF ContainsAny(path, unicodeDotDot)
             THEN "unicode path traversal attempt detected"
        ELSE IF /\ Contains(path, "//")
                /\ \E i \in 1..Len(Fields(path)) : Fields(path)[i] = ".."
             THEN "path traversal detected with multiple slashes"
        ELSE IF Contains(path, NulByte) THEN "null byte detected in path"
        ELSE UnusualElementCheck(path)

(***************************************************************************)
(* Host filesystem                                                         *)
(***************************************************************************)

\* strings.LastIndex(s, "/"), 1-based; 0 when s has no slash
LastSlash(s) ==
    IF Contains(s, "/")
    THEN CHOOSE i \in 1..Len(s) :
            /\ SubSeq(s, i, i) = "/"
            /\ \A j \in (i + 1)..Len(s) : SubSeq(s, j, j) # "/"
    ELSE 0

\* filepath.Dir (Unix)
Dir(path) == Clean(SubSeq(path, 1, LastSlash(path)))

\* os.Lstat(path) returns no error: an entry exists at the path
Lstat(fs, path) == Clean(path) = "/" \/ Clean(path) \in DOMAIN fs

\* The directory and the directories above it, the root excluded
RECURSIVE Ancestors(_)
Ancestors(dir) ==
    IF Clean(dir) = "/" \/ Clean(dir) = "." THEN {}
    ELSE {Clean(dir)} \cup Ancestors(Dir(Clean(dir)))

\* os.MkdirAll(dir): fails when the directory or one above it exists and is
\* no directory; otherwise creates the missing ones.
MkdirAllFailsOn(fs, dirs) ==
    \E a \in dirs : a \in DOMAIN fs /\ fs[a] # "dir"

MkdirAllFails(fs, dir) == MkdirAllFailsOn(fs, Ancestors(dir))

MkdirAllOn(fs, dirs) ==
    [a \in dirs \ DOMAIN fs |-> "dir"] @@ fs

MkdirAll(fs, dir) == MkdirAllOn(fs, Ancestors(dir))

(***************************************************************************)
(* Path Validator: symlink pairs                                           *)
(***************************************************************************)

\* Validator.ValidateSymlink: "" for nil, otherwise the error
\* A mutant of ValidateSymlink: the cycle heuristic is left out
ValidateSymlinkNoCycle(v, source, target, fs) ==
    IF ValidatePath(v, source) # "" THEN "invalid symlink source"
    ELSE IF ValidatePath(v, target) # "" THEN "invalid symlink target"
    ELSE IF Lstat(fs, target) THEN "symlink target already exists"
    ELSE ""

ValidateSymlink(v, source, target, fs) ==
    IF ValidatePath(v, source) # "" THEN "invalid symlink source"
    ELSE IF ValidatePath(v, target) # "" THEN "invalid symlink target"
    ELSE IF \E i \in 1..Len(v.policy.ForbiddenPaths) :
                \/ target = v.policy.ForbiddenPaths[i]
                \/ HasPrefix(target, v.policy.ForbiddenPaths[i] \o "/")
         THEN "symlink target points to forbidden path"
    ELSE IF Lstat(fs, target) THEN "symlink target already exists"
    ELSE IF HasPrefix(target, source) THEN "symlink would create a cycle"
    ELSE ""

(***************************************************************************)
(* Symlink Manager and Symlink Processor                                   *)
(***************************************************************************)

\* The format verb %d
RECURSIVE Itoa(_)
Itoa(n) ==
    LET digit(d) == <<"0", "1", "2", "3", "4", "5", "6", "7", "8", "9">>[d + 1]
    IN  IF n < 10 THEN digit(n) ELSE Itoa(n \div 10) \o digit(n % 10)

SymlinkRequest(source, target, description) ==
    [Source |-> source, Target |-> target, Description |-> description]

ErrDuplicateTarget == "duplicate symlink target"

\* QueueSymlink, before the lock is taken: the three validations
QueueValidation(v, request, fs) ==
    IF ValidatePath(v, request.Source) # "" THEN "invalid source path"
    ELSE IF ValidatePath(v, request.Target) # "" THEN "invalid target path"
    ELSE IF ValidateSymlink(v, request.Source, request.Target, fs) # ""
         THEN "symlink validation failed"
    ELSE ""

\* A mutant of DuplicateTarget: the sources are compared instead of the targets
DuplicateSource(queue, request) ==
    \E i \in 1..Len(queue) : queue[i].Source = request.Source

\* QueueSymlink, under the lock: whether a queued request has the same target
DuplicateTarget(queue, request) ==
    \E i \in 1..Len(queue) : queue[i].Target = request.Target

\* A mutant of CanLock: the mutex is not honoured
CanLockAlways == TRUE

\* queueMutex.Lock() returns only when no caller holds the mutex
CanLock == queueMutex = 0

Threads == {1, 2}

MaxOps == 3

NoRequest == SymlinkRequest("", "", "")

IdleThread ==
    [pc |-> "idle", op |-> "", req |-> NoRequest, err |-> "",
     items |-> <<>>, idx |-> 0, nerrs |-> 0, cerr |-> "", snap |-> <<>>]

\* No ValidateScript call is under way.
ScanIdle ==
    scan = [sv |-> [securityLevel |-> "", hasPathMapper |-> FALSE],
            lines |-> <<>>, pc |-> "none", pos |-> 0,
            warnings |-> 0, errors |-> 0, risk |-> 0, submitted |-> {},
            result |-> <<>>]

\* No Builder has been constructed and no build runs.
BuilderIdle ==
    /\ b = [Package |-> [Name |-> "", Version |-> ""], SourceDir |-> "",
            Scripts |-> <<>>, ExcludeDirs |-> <<>>, PreservePerms |-> FALSE]
    /\ sourceTree = {}
    /\ staging = <<>>
    /\ build = [pc |-> "none", idx |-> 0, err |-> "", audited |-> FALSE,
                trace |-> <<>>]
    /\ caller = [pc |-> "none", err |-> "", scriptErr |-> "", seen |-> 0,
                 script |-> [name |-> "", content |-> <<>>], forced |-> FALSE]
    /\ walkLog = <<>>
    /\ archived = <<>>

\* NewSymlinkProcessor: an empty queue, dry run off
ProcessorIdle ==
    /\ symlinkQueue = <<>>
    /\ queueMutex = 0
    /\ dryRun = FALSE
    /\ hostFS = <<>>
    /\ thr = [t \in Threads |-> IdleThread]
    /\ opsStarted = 0

\* The requests and paths the callers pass
QueueRequests ==
    {SymlinkRequest(src, "/system/bin/app", "test") :
        src \in {"/opt/bin/app", "/opt/bin/another-app"}}
    \cup {SymlinkRequest("/opt/sbin/app", "/sbin/app", "test")}

ProcessPathArgs ==
    {<<"/etc/init.d/svc", "">>, <<"/etc/init.d/svc", "/opt/alt/svc">>,
     <<"/var/log/app.log", "">>, <<"/system/bin/tool", "">>,
     <<"/usr/bin/tool", "">>}

\* ProcessPath: what the processor's PathMapper, the one of NewPathMapper(),
\* answers for each original path
ProcessPathAnswers ==
    UNION {{<<args, r>> : r \in TransformPath(NewPathMapper, args[1])} :
              args \in ProcessPathArgs}

HostCreatable == {"/system/bin/app", "/system/bin"}

\* The directories above each of these paths
HostParents == [path \in HostCreatable |-> Ancestors(Dir(path))]

InitProcessor ==
    /\ pm = NewPathMapper
    /\ pmCalls = {}
    /\ vCalls = {}
    /\ symlinkQueue = <<>>
    /\ queueMutex = 0
    /\ dryRun \in BOOLEAN                \* SetDryRun, before the calls
    /\ hostFS = <<>>
    /\ thr = [t \in Threads |-> IdleThread]
    /\ opsStarted = 0
    /\ BuilderIdle
    /\ ScanIdle

Idle(t) == thr[t].pc = "idle" /\ opsStarted < MaxOps

Begin(t, op, pc, request) ==
    /\ thr' = [thr EXCEPT ![t] = [IdleThread EXCEPT !.pc = pc, !.op = op,
                                                    !.req = request]]
    /\ opsStarted' = opsStarted + 1

Return(t, err) ==
    [IdleThread EXCEPT !.op = thr[t].op, !.req = thr[t].req, !.err = err]

\* A caller calls QueueSymlink(request).
StartQueueSymlink(t) ==
    /\ Idle(t)
    /\ \E request \in QueueRequests : Begin(t, "QueueSymlink", "validate", request)
    /\ UNCHANGED <<scan, builderVars, mapperVars, validatorVars, symlinkQueue, queueMutex, dryRun,
                   hostFS>>

\* A caller calls ProcessPath(originalPath, transformedPath): TransformPath
\* decides whether a symlink is needed, and for which source.
StartProcessPath(t) ==
    /\ Idle(t)
    /\ \E answer \in ProcessPathAnswers :
          LET args == answer[1]
              r == answer[2]
          IN IF r.err # ""
             THEN /\ thr' = [thr EXCEPT ![t] =
                        [IdleThread EXCEPT !.op = "ProcessPath",
                            !.req = SymlinkRequest(args[2], args[1], ""),
                            !.err = "failed to transform path"]]
                  /\ opsStarted' = opsStarted + 1
             ELSE IF ~r.needsSymlink
             THEN /\ thr' = [thr EXCEPT ![t] =
                        [IdleThread EXCEPT !.op = "ProcessPath",
                            !.req = SymlinkRequest(args[2], args[1], "")]]
                  /\ opsStarted' = opsStarted + 1
             ELSE Begin(t, "ProcessPath", "validate",
                        SymlinkRequest(IF args[2] = "" THEN r.out ELSE args[2],
                                       args[1],
                                       "Automatically detected during build"))
    /\ UNCHANGED <<scan, builderVars, mapperVars, validatorVars, symlinkQueue, queueMutex, dryRun,
                   hostFS>>

\* QueueSymlink validates the request; the mutex is not held.
QValidate(t) ==
    /\ thr[t].pc = "validate"
    /\ LET err == QueueValidation(NewValidator, thr[t].req, hostFS)
       IN  thr' = [thr EXCEPT ![t] =
                IF err # "" THEN Return(t, err) ELSE [@ EXCEPT !.pc = "lock"]]
    /\ UNCHANGED <<scan, builderVars, mapperVars, validatorVars, symlinkQueue, queueMutex, dryRun,
                   hostFS, opsStarted>>

\* QueueSymlink takes the mutex and looks for a queued request with the same
\* target; a duplicate returns the error and (deferred) releases the mutex.
QLockCheck(t) ==
    /\ thr[t].pc = "lock"
    /\ CanLock
    /\ IF DuplicateTarget(symlinkQueue, thr[t].req)
       THEN /\ thr' = [thr EXCEPT ![t] = Return(t, ErrDuplicateTarget)]
            /\ queueMutex' = 0
       ELSE /\ thr' = [thr EXCEPT ![t].pc = "append"]
            /\ queueMutex' = t
    /\ UNCHANGED <<scan, builderVars, mapperVars, validatorVars, symlinkQueue, dryRun, hostFS,
                   opsStarted>>

\* QueueSymlink appends the request and releases the mutex.
QAppend(t) ==
    /\ thr[t].pc = "append"
    /\ symlinkQueue' = Append(symlinkQueue, thr[t].req)
    /\ queueMutex' = 0
    /\ thr' = [thr EXCEPT ![t] = Return(t, "")]
    /\ UNCHANGED <<scan, builderVars, mapperVars, validatorVars, dryRun, hostFS, opsStarted>>

\* GetQueuedSymlinks: a copy of the queue, taken under the mutex.
Snapshot(t) ==
    /\ Idle(t)
    /\ CanLock
    /\ thr' = [thr EXCEPT ![t] =
            [IdleThread EXCEPT !.op = "GetQueuedSymlinks", !.snap = symlinkQueue]]
    /\ opsStarted' = opsStarted + 1
    /\ UNCHANGED <<scan, builderVars, mapperVars, validatorVars, symlinkQueue, queueMutex, dryRun,
                   hostFS>>

\* A caller calls ProcessQueuedSymlinks.
StartFlush(t) ==
    /\ Idle(t)
    /\ Begin(t, "ProcessQueuedSymlinks", "flushLock", NoRequest)
    /\ UNCHANGED <<scan, builderVars, mapperVars, validatorVars, symlinkQueue, queueMutex, dryRun,
                   hostFS>>

\* ProcessQueuedSymlinks takes the mutex; an empty queue returns at once, else
\* the loop ranges over the queue as it is now.
FlushLock(t) ==
    /\ thr[t].pc = "flushLock"
    /\ CanLock
    /\ IF Len(symlinkQueue) = 0
       THEN /\ thr' = [thr EXCEPT ![t] = Return(t, "")]
            /\ queueMutex' = 0
       ELSE /\ thr' = [thr EXCEPT ![t].pc = "create", ![t].items = symlinkQueue,
                                  ![t].idx = 1]
            /\ queueMutex' = t
    /\ UNCHANGED <<scan, builderVars, mapperVars, validatorVars, symlinkQueue, dryRun, hostFS,
                   opsStarted>>

ErrParentDir == "failed to create parent directory"
ErrCollision == "collision detected"
ErrSymlink == "failed to create symlink"

\* A mutant of NextItem: the loop ends at the first entry that fails
NextItemFailFast(t, err) ==
    [thr[t] EXCEPT !.idx = @ + 1,
                   !.nerrs = IF err # "" THEN @ + 1 ELSE @,
                   !.cerr = err,
                   !.pc = IF err # "" \/ thr[t].idx + 1 > Len(thr[t].items)
                          THEN "clear" ELSE "create"]

\* ProcessQueuedSymlinks, the loop: createSymlink returned err for the entry;
\* an error is collected and the loop goes on with the next entry.
NextItem(t, err) ==
    [thr[t] EXCEPT !.idx = @ + 1,
                   !.nerrs = IF err # "" THEN @ + 1 ELSE @,
                   !.cerr = err,
                   !.pc = IF thr[t].idx + 1 > Len(thr[t].items) THEN "clear" ELSE "create"]

\* createSymlink for the next entry, up to SymlinkManager.CreateSymlink's
\* existence check: a dry run only logs; otherwise the parent directory is
\* created and the target is looked up.
FlushCreate(t) ==
    /\ thr[t].pc = "create"
    /\ LET request == thr[t].items[thr[t].idx]
           parentDir == Dir(request.Target)
       IN  IF dryRun
           THEN /\ thr' = [thr EXCEPT ![t] = NextItem(t, "")]
                /\ hostFS' = hostFS
           ELSE IF MkdirAllFails(hostFS, parentDir)
           THEN /\ thr' = [thr EXCEPT ![t] = NextItem(t, ErrParentDir)]
                /\ hostFS' = hostFS
           ELSE IF Lstat(MkdirAll(hostFS, parentDir), request.Target)
           THEN /\ thr' = [thr EXCEPT ![t] = NextItem(t, ErrCollision)]
                /\ hostFS' = MkdirAll(hostFS, parentDir)
           ELSE /\ thr' = [thr EXCEPT ![t].pc = "link"]
                /\ hostFS' = MkdirAll(hostFS, parentDir)
    /\ UNCHANGED <<scan, builderVars, mapperVars, validatorVars, symlinkQueue, queueMutex, dryRun,
                   opsStarted>>

\* The entry os.Symlink(source, target) creates
LinkTo(source) == "link -> " \o source

\* A mutant of SymlinkFails: os.Symlink replaces an entry at the target
SymlinkReplaces(fs, target, osError) == osError

\* os.Symlink fails when an entry exists at the target (EEXIST), or for a
\* reason of the system's own
SymlinkFails(fs, target, osError) == osError \/ Lstat(fs, target)

\* SymlinkManager.CreateSymlink, the os.Symlink call
FlushLink(t) ==
    /\ thr[t].pc = "link"
    /\ LET request == thr[t].items[thr[t].idx]
       IN  \E osError \in BOOLEAN :
              IF SymlinkFails(hostFS, request.Target, osError)
              THEN /\ thr' = [thr EXCEPT ![t] = NextItem(t, ErrSymlink)]
                   /\ hostFS' = hostFS
              ELSE /\ thr' = [thr EXCEPT ![t] = NextItem(t, "")]
                   /\ hostFS' = (Clean(request.Target) :> LinkTo(request.Source)) @@ hostFS
    /\ UNCHANGED <<scan, builderVars, mapperVars, validatorVars, symlinkQueue, queueMutex, dryRun,
                   opsStarted>>

\* ProcessQueuedSymlinks clears the queue, releases the mutex and returns.
FlushClear(t) ==
    /\ thr[t].pc = "clear"
    /\ symlinkQueue' = <<>>
    /\ queueMutex' = 0
    /\ thr' = [thr EXCEPT ![t] =
            Return(t, IF thr[t].nerrs > 0
                      THEN "failed to create " \o Itoa(thr[t].nerrs) \o " symlinks"
                      ELSE "")]
    /\ UNCHANGED <<scan, builderVars, mapperVars, validatorVars, dryRun, hostFS, opsStarted>>

\* Another process creates a file on the host, with the directories above it.
HostCreate ==
    /\ \E path \in HostCreatable :
          /\ path \notin DOMAIN hostFS
          /\ ~MkdirAllFailsOn(hostFS, HostParents[path])
          /\ hostFS' = (path :> "file") @@ MkdirAllOn(hostFS, HostParents[path])
    /\ UNCHANGED <<scan, builderVars, mapperVars, validatorVars, symlinkQueue, queueMutex, dryRun,
                   thr, opsStarted>>

NextProcessor ==
    \/ \E t \in Threads :
          \/ StartQueueSymlink(t)
          \/ StartProcessPath(t)
          \/ QValidate(t)
          \/ QLockCheck(t)
          \/ QAppend(t)
          \/ Snapshot(t)
          \/ StartFlush(t)
          \/ FlushLock(t)
          \/ FlushCreate(t)
          \/ FlushLink(t)
          \/ FlushClear(t)
    \/ HostCreate

SpecProcessor == InitProcessor /\ [][NextProcessor]_vars

NoDuplicateTargets ==
    \A i, j \in 1..Len(symlinkQueue) :
        i # j => symlinkQueue[i].Target # symlinkQueue[j].Target

\* The step in which caller t's queue call meets the duplicate check
DuplicateCheckStep(t) ==
    /\ thr[t].pc = "lock"
    /\ thr'[t].pc # "lock"
    /\ DuplicateTarget(symlinkQueue, thr[t].req)

\* C1: under every interleaving of concurrent queue, processPath, snapshot and
\* flush calls no two queued requests share a target, and a queue call whose
\* target is already queued returns the duplicate-target error and leaves the
\* queue as it was.
C1_QueueUniqueness ==
    /\ []NoDuplicateTargets
    /\ [][\A t \in Threads :
            /\ DuplicateCheckStep(t) =>
                  /\ thr'[t].pc = "idle"
                  /\ thr'[t].err = ErrDuplicateTarget
                  /\ symlinkQueue' = symlinkQueue
            /\ (thr[t].pc # "idle" /\ thr'[t].pc = "idle"
                  /\ thr'[t].err = ErrDuplicateTarget) =>
                  symlinkQueue' = symlinkQueue]_vars

\* Two requests with one target and different sources were queued; the second
\* call returned the duplicate-target error and the queue holds one request.
C1_Witness ==
    \E t \in Threads :
        /\ thr[t].pc = "idle"
        /\ thr[t].op = "QueueSymlink"
        /\ thr[t].err = ErrDuplicateTarget
        /\ Len(symlinkQueue) = 1
        /\ symlinkQueue[1].Target = thr[t].req.Target
        /\ symlinkQueue[1].Source # thr[t].req.Source

\* Caller t's ProcessQueuedSymlinks clears the queue and returns
FlushReturns(t) == thr[t].pc = "clear" /\ thr'[t].pc = "idle"

\* Caller t's loop is done with an entry
EntryDone(t) == thr[t].pc \in {"create", "link"} /\ thr'[t].idx # thr[t].idx

\* C16: the flush is best-effort: a pass attempts every queued entry in queue
\* order even when earlier entries fail; when it ends the queue is empty
\* whatever failed; the aggregate error with the number of failed entries is
\* returned iff an entry failed; a dry run creates no symlink and no
\* directory and succeeds.
C16_FlushBestEffort ==
    [][\A t \in Threads :
          /\ EntryDone(t) =>
                /\ thr'[t].idx = thr[t].idx + 1
                /\ thr'[t].items = symlinkQueue
                /\ thr'[t].nerrs = thr[t].nerrs + (IF thr'[t].cerr # "" THEN 1 ELSE 0)
                /\ thr'[t].pc = IF thr[t].idx < Len(symlinkQueue) THEN "create" ELSE "clear"
          /\ FlushReturns(t) =>
                /\ thr[t].idx = Len(symlinkQueue) + 1
                /\ symlinkQueue' = <<>>
                /\ thr'[t].err = IF thr[t].nerrs > 0
                                 THEN "failed to create " \o Itoa(thr[t].nerrs) \o " symlinks"
                                 ELSE ""
                /\ dryRun => thr'[t].err = ""
          /\ (dryRun /\ thr'[t] # thr[t]) => hostFS' = hostFS]_vars

\* A pass over two entries is about to clear the queue: the first entry
\* failed, the second was attempted all the same and its symlink exists.
C16_Witness ==
    \E t \in Threads :
        /\ thr[t].pc = "clear"
        /\ Len(thr[t].items) = 2
        /\ thr[t].nerrs = 1
        /\ thr[t].cerr = ""
        /\ Lstat(hostFS, thr[t].items[2].Target)
        /\ hostFS[thr[t].items[2].Target] = LinkTo(thr[t].items[2].Source)

\* Caller t's ProcessPath call, for which the Path Mapper reported that a
\* symlink is needed, returns
ProcessPathReturns(t) ==
    thr[t].op = "ProcessPath" /\ thr[t].pc # "idle" /\ thr'[t].pc = "idle"

\* Caller t's ProcessPath call gets the Path Mapper's answer
ProcessPathAnswered(t, answer) ==
    /\ thr[t].pc = "idle"
    /\ opsStarted' = opsStarted + 1
    /\ thr'[t] # thr[t]
    /\ thr'[t].op = "ProcessPath"
    /\ thr'[t].req.Target = answer[1][1]
    /\ thr'[t].req.Source =
          IF answer[1][2] = "" /\ answer[2].err = "" /\ answer[2].needsSymlink
          THEN answer[2].out ELSE answer[1][2]

\* C17: when the Path Mapper reports that a symlink is needed for original,
\* processPath appends exactly one request with source = the supplied (or
\* else the computed) transformed path and target = original; when none is
\* needed it succeeds and the queue is unchanged; when the mapper cannot
\* transform original it fails and the queue is unchanged.
C17_ProcessPathQueuesOne ==
    [][\A t \in Threads :
          /\ ProcessPathReturns(t) =>
                /\ thr'[t].err = ""
                /\ symlinkQueue' = Append(symlinkQueue, thr[t].req)
          /\ \A answer \in ProcessPathAnswers :
                ProcessPathAnswered(t, answer) =>
                   /\ symlinkQueue' = symlinkQueue
                   /\ answer[2].err # "" => thr'[t].pc = "idle" /\ thr'[t].err # ""
                   /\ (answer[2].err = "" /\ ~answer[2].needsSymlink) =>
                         thr'[t].pc = "idle" /\ thr'[t].err = ""
                   /\ (answer[2].err = "" /\ answer[2].needsSymlink) =>
                         thr'[t].pc = "validate"]_vars

\* C29: no request whose target equals or lies under a forbidden path of the
\* default policy is ever in the symlink queue, whatever QueueSymlink and
\* ProcessPath calls were made: such a call passes neither the lock nor the
\* append, and returns the target error; so an entry under /usr/bin, for
\* which the Path Mapper reports that a symlink is needed, is not queued.
C29_NoForbiddenTargetQueued ==
    /\ \A i \in 1..Len(symlinkQueue) : ~UnderForbidden(symlinkQueue[i].Target)
    /\ \A t \in Threads :
          (thr[t].op \in {"QueueSymlink", "ProcessPath"}
              /\ UnderForbidden(thr[t].req.Target)) =>
             /\ thr[t].pc \in {"validate", "idle"}
             /\ thr[t].pc = "idle" => thr[t].err = "invalid target path"

\* Both a QueueSymlink call with a target under /sbin and a ProcessPath call
\* for an entry under /usr/bin have returned, while another request is queued.
C29_Witness ==
    /\ thr[1].op = "QueueSymlink" /\ thr[1].pc = "idle"
    /\ thr[1].req.Target = "/sbin/app" /\ thr[1].err = "invalid target path"
    /\ thr[2].op = "ProcessPath" /\ thr[2].pc = "idle"
    /\ thr[2].req = SymlinkRequest("/opt/usr/bin/tool", "/usr/bin/tool",
                                   "Automatically detected during build")
    /\ thr[2].err = "invalid target path"
    /\ Len(symlinkQueue) = 1

\* No entry of the host is removed or altered by the step
HostEntriesKept ==
    \A path \in DOMAIN hostFS : path \in DOMAIN hostFS' /\ hostFS'[path] = hostFS[path]

\* The entry caller t's loop is at
Entry(t) == thr[t].items[thr[t].idx]

Space == {" ", "\t"}
Digits == {"0", "1", "2", "3", "4", "5", "6", "7", "8", "9"}
Lower ==
    {"a", "b", "c", "d", "e", "f", "g", "h", "i", "j", "k", "l", "m",
     "n", "o", "p", "q", "r", "s", "t", "u", "v", "w", "x", "y", "z"}
Upper ==
    {"A", "B", "C", "D", "E", "F", "G", "H", "I", "J", "K", "L", "M",
     "N", "O", "P", "Q", "R", "S", "T", "U", "V", "W", "X", "Y", "Z"}
WordChars == Lower \cup Upper \cup Digits \cup {"_"}

CharAt(s, i) == SubSeq(s, i, i)

Lit(s) == [k |-> "lit", s |-> s]
One(c) == [k |-> "one", c |-> c, neg |-> FALSE]
Plus(c) == [k |-> "plus", c |-> c, neg |-> FALSE]
PlusNot(c) == [k |-> "plus", c |-> c, neg |-> TRUE]
Star(c) == [k |-> "star", c |-> c, neg |-> FALSE]
Opt(r) == [k |-> "opt", r |-> r]
Alt(rs) == [k |-> "alt", rs |-> rs]

InClass(ch, a) == (ch \in a.c) # a.neg

\* The positions after a run of class characters that starts at pos
RunEnds(a, line, pos, least) ==
    {e \in (pos + least)..(Len(line) + 1) :
        \A i \in pos..(e - 1) : InClass(CharAt(line, i), a)}

\* The positions at which a match of re that starts at pos can end
RECURSIVE MatchEnds(_, _, _)
MatchEnds(re, line, pos) ==
    IF Len(re) = 0 THEN {pos}
    ELSE LET a == Head(re)
             after ==
                CASE a.k = "lit" ->
                        IF /\ pos + Len(a.s) - 1 <= Len(line)
                           /\ SubSeq(line, pos, pos + Len(a.s) - 1) = a.s
                        THEN {pos + Len(a.s)} ELSE {}
                  [] a.k = "one" ->
                        IF pos <= Len(line) /\ InClass(CharAt(line, pos), a)
                        THEN {pos + 1} ELSE {}
                  [] a.k = "plus" -> RunEnds(a, line, pos, 1)
                  [] a.k = "star" -> RunEnds(a, line, pos, 0)
                  [] a.k = "opt" -> {pos} \cup MatchEnds(a.r, line, pos)
                  [] a.k = "alt" ->
                        UNION {MatchEnds(a.rs[i], line, pos) : i \in 1..Len(a.rs)}
         IN  UNION {MatchEnds(Tail(re), line, e) : e \in after}

\* regexp.MatchString: the expression matches somewhere in the line
MatchString(re, line) ==
    \E pos \in 1..(Len(line) + 1) : MatchEnds(re, line, pos) # {}

\* regexp `\bcmd\b`: the command as a whole word
MatchWord(cmd, line) ==
    \E pos \in 1..Len(line) :
        /\ pos + Len(cmd) - 1 <= Len(line)
        /\ SubSeq(line, pos, pos + Len(cmd) - 1) = cmd
        /\ pos = 1 \/ CharAt(line, pos - 1) \notin WordChars
        /\ \/ pos + Len(cmd) - 1 = Len(line)
           \/ CharAt(line, pos + Len(cmd)) \notin WordChars

\* strings.TrimSpace
RECURSIVE TrimSpace(_)
TrimSpace(s) ==
    IF Len(s) = 0 THEN s
    ELSE IF CharAt(s, 1) \in Space THEN TrimSpace(SubSeq(s, 2, Len(s)))
    ELSE IF CharAt(s, Len(s)) \in Space THEN TrimSpace(SubSeq(s, 1, Len(s) - 1))
    ELSE s

SecurityLevelLow == "Low"
SecurityLevelMedium == "Medium"
SecurityLevelHigh == "High"

\* NewScriptValidator: dangerousPatterns, in the order of the source
dangerousPatterns ==
    <<
      <<Lit("rm"), Plus(Space), Opt(<<Lit("-"), Plus({"r", "f"}), Plus(Space)>>), Lit("/")>>,
      <<Lit("chmod"), Plus(Space), Opt(<<Plus({"0", "1", "2", "3", "4", "5", "6", "7"}), Plus(Space)>>), Lit("/")>>,
      <<Lit("chown"), Plus(Space), Opt(<<PlusNot({"/"}), Plus(Space)>>), Lit("/")>>,
      <<Lit("wget"), Plus(Space), PlusNot({}), Plus(Space), Lit("|"), Plus(Space), Opt(<<One({"b", "a"})>>), Lit("sh")>>,
      <<Lit("curl"), Plus(Space), PlusNot({}), Plus(Space), Lit("|"), Plus(Space), Opt(<<One({"b", "a"})>>), Lit("sh")>>,
      <<Lit("sudo")>>,
      <<Lit("su"), Plus(Space), Opt(<<Lit("-"), Plus(Lower), Plus(Space)>>), Lit("root")>>,
      <<Lit("eval"), Plus(Space), One({"\"", "'"})>>,
      <<Lit("exec"), Plus(Space), Plus(Digits)>>,
      <<Lit("set"), Alt(<< <<Lit("uid")>>, <<Lit("gid")>> >>)>>,
      <<Lit(">"), Star(Space), Lit("/etc/")>>,
      <<Lit(">>"), Star(Space), Lit("/etc/")>>,
      <<Lit("apt"), Opt(<<Lit("-get")>>), Plus(Space), Alt(<< <<Lit("install")>>, <<Lit("remove")>> >>)>>,
      <<Lit("dpkg"), Plus(Space), Alt(<< <<Lit("-i")>>, <<Lit("--install")>> >>)>>,
      <<Lit("update-alternatives")>>,
      <<Lit("/etc/init.d/")>>,
      <<Lit("systemctl"), Plus(Space), Alt(<< <<Lit("enable")>>, <<Lit("disable")>>, <<Lit("mask")>> >>)>>
    >>

\* NewScriptValidator: dangerousCommands, command -> risk level
dangerousCommands ==
    [cmd \in {"rm", "chmod", "chown", "wget", "curl", "dd", "mkfs", "mount",
              "umount", "apt", "apt-get", "dpkg", "sudo", "su", "init",
              "systemctl", "service", "useradd", "usermod", "groupadd",
              "sysctl", "iptables", "update-rc.d"} |->
        CASE cmd = "init" -> 10
          [] cmd \in {"mkfs", "sudo", "su"} -> 9
          [] cmd \in {"dd", "sysctl"} -> 8
          [] cmd \in {"rm", "mount", "useradd", "usermod", "iptables"} -> 7
          [] cmd \in {"wget", "curl", "umount", "dpkg"} -> 5
          [] OTHER -> 6]

protectedPaths ==
    <<"/bin", "/sbin", "/usr/bin", "/usr/sbin", "/lib", "/lib64",
      "/etc/passwd", "/etc/shadow", "/etc/sudoers", "/boot", "/dev", "/proc",
      "/sys", "/var/run", "/var/lock">>

shellInterpreters ==
    <<"#!/bin/sh", "#!/bin/bash", "#!/usr/bin/env sh", "#!/usr/bin/env bash">>

\* NewScriptValidator(WithSecurityLevel(level), WithPathMapper(mapper))
NewScriptValidator(level, mapper) ==
    [securityLevel |-> level, pathMapper |-> mapper, hasPathMapper |-> TRUE]

\* NewScriptValidator(WithSecurityLevel(level)): sv.pathMapper is nil
NewScriptValidatorNoMapper(level) ==
    [securityLevel |-> level, pathMapper |-> NewPathMapper, hasPathMapper |-> FALSE]

\* extractPaths: what follows the start of the line or white space, begins
\* with a slash and runs up to white space or one of ; | > < " '
PathStops == Space \cup {";", "|", ">", "<", "\"", "'"}

\* Where the run of path characters that starts at position i ends
RECURSIVE PathEnd(_, _)
PathEnd(line, i) ==
    IF i > Len(line) \/ CharAt(line, i) \in PathStops THEN i
    ELSE PathEnd(line, i + 1)

extractPaths(line) ==
    {[pos |-> p, path |-> SubSeq(line, p, PathEnd(line, p + 1) - 1)] :
        p \in {p \in 1..Len(line) :
                 /\ CharAt(line, p) = "/"
                 /\ p = 1 \/ CharAt(line, p - 1) \in Space
                 /\ PathEnd(line, p + 1) > p + 1}}

\* The sum of riskLevel / d over the commands found
RECURSIVE ScaledRisk(_, _)
ScaledRisk(commands, d) ==
    IF commands = {} THEN 0
    ELSE LET cmd == CHOOSE c \in commands : TRUE
         IN  dangerousCommands[cmd] \div d + ScaledRisk(commands \ {cmd}, d)

\* The lines ValidateScript looks at: neither empty nor a comment
IsSkipped(line) == TrimSpace(line) = "" \/ HasPrefix(TrimSpace(line), "#")

Scanned(lines) == SelectSeq(lines, LAMBDA line : ~IsSkipped(line))

\* The dangerous patterns, the dangerous commands and the protected paths
\* found in a line, and the paths extracted from it that earn a warning
PatternsIn(line) ==
    {i \in 1..Len(dangerousPatterns) : MatchString(dangerousPatterns[i], line)}

CommandsIn(line) == {cmd \in DOMAIN dangerousCommands : MatchWord(cmd, line)}

\* A mutant of ProtectedIn: no line references a protected path
ProtectedNone(line) == {}

ProtectedIn(line) ==
    {i \in 1..Len(protectedPaths) : Contains(line, protectedPaths[i])}

\* A mutant of IsDynamicPath: no path is skipped
NeverDynamic(path) == FALSE

\* ValidateScript: paths with a variable or a command substitution are skipped
IsDynamicPath(path) == Contains(path, "$") \/ Contains(path, Backtick)

\* ValidateScript: the extracted paths handed to PathMapper.TransformPath
SubmittedIn(sv, line) ==
    IF sv.hasPathMapper
    THEN {m \in extractPaths(line) : ~IsDynamicPath(m.path)}
    ELSE {}

PathWarningsIn(sv, line) ==
    {m \in SubmittedIn(sv, line) :
        \E r \in TransformPath(sv.pathMapper, m.path) :
            r.err # "" \/ r.needsSymlink}

\* ValidateScript, one line: [warnings, errors, risk] it adds
Findings(patterns, commands, onPaths, pathWarnings) ==
    [warnings |-> Cardinality(patterns) + Cardinality(commands)
                    + Cardinality(pathWarnings),
     errors |-> Cardinality(commands) * Cardinality(onPaths),
     risk |-> 2 * Cardinality(patterns) + ScaledRisk(commands, 3)
                + Cardinality(onPaths) * ScaledRisk(commands, 2)]

LineFindings(sv, line) ==
    Findings(PatternsIn(line), CommandsIn(line), ProtectedIn(line),
             PathWarningsIn(sv, line))

\* A mutant of AddFindings: the counts of a line replace the running counts
LastFindings(f, g) == g

\* ValidateScript: the counts of a line are added to the running counts
AddFindings(f, g) ==
    [warnings |-> f.warnings + g.warnings, errors |-> f.errors + g.errors,
     risk |-> f.risk + g.risk]

RECURSIVE SumFindings(_, _)
SumFindings(sv, lines) ==
    IF Len(lines) = 0 THEN [warnings |-> 0, errors |-> 0, risk |-> 0]
    ELSE AddFindings(LineFindings(sv, Head(lines)), SumFindings(sv, Tail(lines)))

\* A mutant of Verdict: every level judged by the thresholds of Low
VerdictLenient(level, warnings, errors, risk) ==
    [Valid |-> ~(errors > 3 \/ risk > 8),
     Warnings |-> warnings, Errors |-> errors, RiskLevel |-> risk]

\* ValidateScript, the verdict for the security level
Verdict(level, warnings, errors, risk) ==
    [Valid |->
        CASE level = SecurityLevelLow -> ~(errors > 3 \/ risk > 8)
          [] level = SecurityLevelMedium -> ~(errors > 0 \/ risk > 6)
          [] level = SecurityLevelHigh -> ~(errors > 0 \/ warnings > 3 \/ risk > 4),
     Warnings |-> warnings, Errors |-> errors, RiskLevel |-> risk]

ShebangWarning(lines) ==
    IF \E i \in 1..Len(shellInterpreters) : HasPrefix(lines[1], shellInterpreters[i])
    THEN 0 ELSE 1

WithShebang(level, shebang, f) ==
    Verdict(level, shebang + f.warnings, f.errors, f.risk)

\* strings.TrimSpace(content) == "": no line has anything but white space
IsEmptyContent(lines) == \A i \in 1..Len(lines) : TrimSpace(lines[i]) = ""

\* ValidateScript on empty content: valid, with the one warning
EmptyResult == [Valid |-> TRUE, Warnings |-> 1, Errors |-> 0, RiskLevel |-> 0]

\* ScriptValidator.ValidateScript: [Valid, Warnings, Errors, RiskLevel]
ValidateScript(sv, scriptName, lines) ==
    IF IsEmptyContent(lines) THEN EmptyResult
    ELSE WithShebang(sv.securityLevel, ShebangWarning(lines),
                     SumFindings(sv, Scanned(lines)))

(***************************************************************************)
(* Builder                                                                 *)
(*                                                                         *)
(* The staging tree is a function from the path below Builder.BuildDir     *)
(* ("/" is BuildDir itself) to [kind, mode, content]; the empty function   *)
(* is a BuildDir that does not exist.  A file's content is a sequence of   *)
(* lines.                                                                  *)
(***************************************************************************)

Mode0644 == 420
Mode0755 == 493
Mode0700 == 448
Mode0100 == 64

\* mode & bits # 0, for a single bit
ModeHasBit(mode, bit) == (mode \div bit) % 2 = 1

DirEntry(mode) == [kind |-> "dir", mode |-> mode, content |-> <<>>]
FileEntry(mode, content) == [kind |-> "file", mode |-> mode, content |-> content]

\* os.MkdirAll below BuildDir: an error when something on the way is no directory
StageMkdirAllFails(st, dir) ==
    \E a \in Ancestors(dir) : a \in DOMAIN st /\ st[a].kind # "dir"

\* os.MkdirAll below BuildDir: every missing directory, BuildDir included, is
\* created with the mode passed
StageMkdirAll(st, dir, mode) ==
    [a \in (Ancestors(dir) \cup {"/"}) \ DOMAIN st |-> DirEntry(mode)] @@ st

\* os.WriteFile / os.Create: an error when the directory is missing or the
\* path is a directory
StageWriteFails(st, path) ==
    \/ Dir(path) \notin DOMAIN st
    \/ path \in DOMAIN st /\ st[path].kind = "dir"

\* os.WriteFile, and os.Create + io.Copy + os.Chmod: an existing file keeps
\* its mode under WriteFile, Chmod sets it
StageWriteFile(st, path, content, mode) ==
    (path :> FileEntry(mode, content)) @@ st

\* A mutant of RemoveAll: nothing is removed
RemoveNothing(st) == st

\* os.RemoveAll(b.BuildDir)
RemoveAll(st) == <<>>

\* Builder.Clean
BuilderClean(st) == RemoveAll(st)

\* Package.Validate: "" for nil
\* A mutant of Package.Validate: any metadata passes.
PackageValidateNothing(p) == ""

\* Package.Validate
PackageValidate(p) ==
    IF p.Name = "" THEN "package name cannot be empty"
    ELSE IF p.Version = "" THEN "package version cannot be empty"
    ELSE ""

\* NewBuilder
NewBuilder(p, sourceDir) ==
    [Package |-> p, SourceDir |-> sourceDir, Scripts |-> <<>>,
     ExcludeDirs |-> <<>>, PreservePerms |-> FALSE]

\* What a source tree can hold, in the order filepath.Walk visits it
\* (lexical, a directory before what it holds)
SourceEntries ==
    <<[path |-> "/bin", isDir |-> TRUE, mode |-> Mode0755, size |-> 0],
      [path |-> "/bin/app", isDir |-> FALSE, mode |-> Mode0755, size |-> 2000],
      [path |-> "/boot", isDir |-> TRUE, mode |-> Mode0755, size |-> 0],
      [path |-> "/boot/vmlinuz", isDir |-> FALSE, mode |-> Mode0644, size |-> 3000],
      [path |-> "/etc", isDir |-> TRUE, mode |-> Mode0755, size |-> 0],
      [path |-> "/etc/%2e%2e", isDir |-> FALSE, mode |-> Mode0644, size |-> 10],
      [path |-> "/etc/init.d", isDir |-> TRUE, mode |-> Mode0755, size |-> 0],
      [path |-> "/etc/init.d/svc", isDir |-> FALSE, mode |-> Mode0755, size |-> 100],
      [path |-> "/srv", isDir |-> TRUE, mode |-> Mode0755, size |-> 0],
      [path |-> "/srv/data", isDir |-> FALSE, mode |-> Mode0644, size |-> 500],
      [path |-> "/usr", isDir |-> TRUE, mode |-> Mode0755, size |-> 0],
      [path |-> "/usr/share", isDir |-> TRUE, mode |-> Mode0755, size |-> 0],
      [path |-> "/usr/share/man", isDir |-> TRUE, mode |-> Mode0755, size |-> 0],
      [path |-> "/usr/share/man/app.1", isDir |-> FALSE, mode |-> Mode0644, size |-> 24]>>

SourceFiles ==
    {SourceEntries[i].path : i \in {j \in 1..Len(SourceEntries) : ~SourceEntries[j].isDir}}

MaxFiles == 2

\* The trees with at most MaxFiles files, each with the directories above it
SourceTrees ==
    {files \cup UNION {Ancestors(Dir(f)) : f \in files} :
        files \in {F \in SUBSET SourceFiles : Cardinality(F) <= MaxFiles}}

\* filepath.Walk(b.SourceDir): the entries of the tree in walk order
WalkOrder(tree) == SelectSeq(SourceEntries, LAMBDA e : e.path \in tree)

\* Builder.calculateInstalledSize
RECURSIVE TotalSize(_)
TotalSize(entries) ==
    IF Len(entries) = 0 THEN 0
    ELSE (IF Head(entries).isDir THEN 0 ELSE Head(entries).size)
            + TotalSize(Tail(entries))

calculateInstalledSize(tree) == (TotalSize(WalkOrder(tree)) + 1023) \div 1024

\* Builder.generateControlFile (Conflicts, Provides, Depends are empty)
generateControlFile(bb, tree) ==
    <<"Package: " \o bb.Package.Name,
      "Version: " \o bb.Package.Version,
      "Architecture: " \o bb.Package.Architecture,
      "Maintainer: " \o bb.Package.Maintainer,
      "Description: " \o bb.Package.Description,
      "Section: " \o bb.Package.Section,
      "Priority: " \o bb.Package.Priority,
      "Installed-Size: " \o Itoa(calculateInstalledSize(tree)),
      "Homepage: https://github.com/go-i2p/go-pkginstall">>

validScripts == {"preinst", "postinst", "prerm", "postrm"}

ErrScriptName == "invalid maintainer script name"
ErrScriptValidation == "Script validation failed"

\* A mutant of ScriptError: the script is validated at the Low level.
ScriptErrorLow(mapper, scriptName, content) ==
    IF scriptName \notin validScripts THEN ErrScriptName
    ELSE IF ~ValidateScript(NewScriptValidator(SecurityLevelLow, mapper),
                            scriptName, content).Valid
    THEN ErrScriptValidation
    ELSE ""

\* Builder.SetMaintainerScript, the checks: the error it returns, "" for nil
ScriptError(mapper, scriptName, content) ==
    IF scriptName \notin validScripts THEN ErrScriptName
    ELSE IF ~ValidateScript(NewScriptValidator(SecurityLevelMedium, mapper),
                            scriptName, content).Valid
    THEN ErrScriptValidation
    ELSE ""

\* Builder.SetMaintainerScript, the end: the script is stored if err is nil
StoreScript(bb, scriptName, content, err) ==
    [b |-> IF err = "" THEN [bb EXCEPT !.Scripts = (scriptName :> content) @@ @]
           ELSE bb,
     err |-> err]

\* Builder.SetMaintainerScript: the Builder afterwards, and the error
SetMaintainerScript(bb, mapper, scriptName, content) ==
    StoreScript(bb, scriptName, content, ScriptError(mapper, scriptName, content))

\* Builder.createSymlinkScript: the lines of the generated postinst
RECURSIVE SymlinkSteps(_)
SymlinkSteps(symlinks) ==
    IF Len(symlinks) = 0 THEN <<>>
    ELSE LET symlink == Head(symlinks)
         IN  <<"# " \o symlink.Description,
               "mkdir -p $(dirname '" \o symlink.Target \o "')",
               "if [ ! -e '" \o symlink.Target \o "' ]; then",
               "    ln -sf '" \o symlink.Source \o "' '" \o symlink.Target \o "'",
               "else",
               "    echo \"Warning: File '" \o symlink.Target
                    \o "' already exists, not creating symlink\"",
               "fi",
               "">> \o SymlinkSteps(Tail(symlinks))

SymlinkScript(symlinks) ==
    <<"#!/bin/sh", "",
      "# This script was generated by go-pkginstall to create necessary symlinks",
      "",
      "set -e", "">> \o SymlinkSteps(symlinks)

\* Builder.createDebianDir: the staging tree afterwards
RECURSIVE WriteScripts(_, _, _)
WriteScripts(st, scripts, names) ==
    IF names = {} THEN st
    ELSE LET scriptName == CHOOSE n \in names : TRUE
         IN  WriteScripts(
                StageWriteFile(st, "/DEBIAN/" \o scriptName, scripts[scriptName],
                               Mode0755),
                scripts, names \ {scriptName})

createDebianDir(bb, tree, st) ==
    WriteScripts(
        StageWriteFile(StageMkdirAll(st, "/DEBIAN", Mode0755), "/DEBIAN/control",
                       generateControlFile(bb, tree), Mode0644),
        bb.Scripts, DOMAIN bb.Scripts)

\* filepath.Base
Base(path) == SubSeq(path, LastSlash(path) + 1, Len(path))

validDebianFiles ==
    {"control", "preinst", "postinst", "prerm", "postrm", "conffiles", "shlibs",
     "triggers"}

\* Validator.ValidatePackageFile: whether the file is valid
ValidatePackageFile(v, path, isDir) == ValidatePath(v, path) = ""

\* os.Stat(path) fails with an error that os.IsNotExist accepts (ENOENT): the
\* entry is missing and every entry above it that exists is a directory. A
\* file on the way gives ENOTDIR, which os.IsNotExist does not accept.
StatIsNotExist(st, path) ==
    /\ path \notin DOMAIN st
    /\ \A a \in Ancestors(Dir(path)) : a \in DOMAIN st => st[a].kind = "dir"

\* ValidatePackage, the walk: the entries it finds invalid
invalidFiles(v, st) ==
    {path \in DOMAIN st \ {"/", "/DEBIAN"} :
        IF HasPrefix(path, "/DEBIAN/")
        THEN Base(path) \notin validDebianFiles /\ st[path].kind # "dir"
        ELSE ~ValidatePackageFile(v, path, st[path].kind = "dir")}

\* Validator.ValidatePackage on the tree of packageDir: "" for nil
ValidatePackage(v, st) ==
    IF "/" \notin DOMAIN st THEN "package directory error"
    ELSE IF st["/"].kind # "dir" THEN "package path is not a directory"
    ELSE IF StatIsNotExist(st, "/DEBIAN")
         THEN "DEBIAN directory missing from package"
    ELSE IF StatIsNotExist(st, "/DEBIAN/control")
         THEN "control file missing from package"
    ELSE IF invalidFiles(v, st) # {} THEN "package contains invalid files"
    ELSE ""

\* A mutant of FallbackPath: the path is put under the secure root
FallbackSecure(m, absPath) == m.baseTransformDir \o absPath

\* copyFiles, when TransformPath fails: the path is used as it is
FallbackPath(m, absPath) == absPath

\* A mutant of OnQueueError: the walk returns the error
OnQueueErrorAbort(err) == err

\* copyFiles, when ProcessPath fails: the error is logged, the walk goes on
OnQueueError(err) == ""

\* copyFiles: the mode a copied file gets
FileMode(bb, infoMode) ==
    IF bb.PreservePerms THEN infoMode
    ELSE LET mode == Mode0644
         IN  IF ModeHasBit(mode, Mode0100) THEN Mode0755 ELSE mode

\* SymlinkProcessor.ProcessPath as copyFiles calls it, the queue free:
\* [queue, err]
ProcessPath(m, v, queue, fs, originalPath, transformedPath) ==
    {IF r.err # "" THEN [queue |-> queue, err |-> "failed to transform path"]
     ELSE IF ~r.needsSymlink THEN [queue |-> queue, err |-> ""]
     ELSE LET request == SymlinkRequest(
                            IF transformedPath = "" THEN r.out ELSE transformedPath,
                            originalPath, "Automatically detected during build")
              err == QueueValidation(v, request, fs)
          IN  IF err # "" THEN [queue |-> queue, err |-> err]
              ELSE IF DuplicateTarget(queue, request)
                   THEN [queue |-> queue, err |-> ErrDuplicateTarget]
              ELSE [queue |-> Append(queue, request), err |-> ""]
     : r \in TransformPath(m, originalPath)}

(***************************************************************************)
(* SpecBuild: a Builder is constructed over a source tree, the caller may  *)
(* set a maintainer script, then calls BuildWithTimeout: Build runs in a   *)
(* goroutine of its own while the caller waits for its result or for the   *)
(* timer.                                                                  *)
(***************************************************************************)

Packages ==
    {[Name |-> nv[1], Version |-> nv[2], Architecture |-> "amd64",
      Maintainer |-> "dev", Description |-> "myapp", Section |-> "utils",
      Priority |-> "optional"] :
        nv \in {<<"myapp", "1.0">>, <<"myapp", "">>, <<"", "1.0">>}}

\* The build host: nearly empty, or with the usual directories
HostTrees ==
    {<<>>,
     [path \in {"/bin", "/etc", "/etc/init.d", "/usr", "/usr/share",
                "/usr/share/man"} |-> "dir"]}

UserScripts ==
    {[name |-> "postinst", content |-> <<"#!/bin/sh", "echo installed">>],
     [name |-> "postinst", content |-> <<"#!/bin/sh", "rm -rf /bin/ls">>],
     [name |-> "prerm", content |-> <<"#!/bin/sh", "echo removing">>],
     [name |-> "config", content |-> <<"#!/bin/sh", "echo configured">>]}

\* No maintainer script given
NoScript == [name |-> "", content |-> <<>>]

InitBuild ==
    /\ pm = NewPathMapper
    /\ pmCalls = {}
    /\ vCalls = {}
    /\ symlinkQueue = <<>>
    /\ queueMutex = 0
    /\ dryRun = FALSE
    /\ hostFS \in HostTrees
    /\ thr = [t \in Threads |-> IdleThread]
    /\ opsStarted = 0
    /\ sourceTree \in SourceTrees
    /\ b \in {NewBuilder(p, "/src") : p \in Packages}
    /\ staging = StageMkdirAll(<<>>, "/", Mode0700)       \* os.MkdirTemp
    /\ build = [pc |-> "new", idx |-> 0, err |-> "", audited |-> FALSE,
                trace |-> <<>>]
    /\ caller = [pc |-> "new", err |-> "", scriptErr |-> "", seen |-> 0,
                 script |-> NoScript, forced |-> FALSE]
    /\ walkLog = <<>>
    /\ archived = <<>>
    /\ ScanIdle

ErrTimeout == "package build timed out"

\* Build returns err: what is left is the deferred Clean
BuildFails(err) == [build EXCEPT !.pc = "deferred", !.err = err]

\* build.trace is the history of Build: the calls it has made so far, in
\* order, each with whether it returned nil.  caller.seen is the length of
\* that history when the caller's timer fired.
Step(name, ok) == [step |-> name, ok |-> ok]

Traced(bld, name, ok) == [bld EXCEPT !.trace = Append(@, Step(name, ok))]

\* The caller sets a maintainer script before the build.
CallSetMaintainerScript ==
    /\ caller.pc = "new"
    /\ caller.script = NoScript
    /\ \E script \in UserScripts :
          LET res == SetMaintainerScript(b, pm, script.name, script.content)
          IN  /\ b' = res.b
              /\ caller' = [caller EXCEPT !.scriptErr = res.err, !.script = script]
    /\ UNCHANGED <<scan, mapperVars, validatorVars, processorVars, sourceTree, staging,
                   build, walkLog, archived>>

\* runBuildCommand with --ignore-script-validation: after a failed
\* validation the caller stores the script itself.
CallForceScript ==
    /\ caller.pc = "new"
    /\ caller.scriptErr = ErrScriptValidation
    /\ ~caller.forced
    /\ b' = [b EXCEPT !.Scripts = (caller.script.name :> caller.script.content) @@ @]
    /\ caller' = [caller EXCEPT !.forced = TRUE]
    /\ UNCHANGED <<scan, mapperVars, validatorVars, processorVars, sourceTree, staging,
                   build, walkLog, archived>>

\* The caller calls BuildWithTimeout: Build starts in its goroutine.
CallBuildWithTimeout ==
    /\ caller.pc = "new"
    /\ caller' = [caller EXCEPT !.pc = "select"]
    /\ build' = [build EXCEPT !.pc = "validate"]
    /\ UNCHANGED <<scan, mapperVars, validatorVars, processorVars, b, sourceTree,
                   staging, walkLog, archived>>

\* Build: Package.Validate
BuildValidate ==
    /\ build.pc = "validate"
    /\ build' = IF PackageValidate(b.Package) # ""
                THEN Traced(BuildFails("package validation failed"), "validate", FALSE)
                ELSE Traced([build EXCEPT !.pc = "debian"], "validate", TRUE)
    /\ UNCHANGED <<scan, mapperVars, validatorVars, processorVars, b, sourceTree,
                   staging, caller, walkLog, archived>>

\* Build: createDebianDir
BuildCreateDebianDir ==
    /\ build.pc = "debian"
    /\ staging' = createDebianDir(b, sourceTree, staging)
    /\ build' = Traced([build EXCEPT !.pc = "walk", !.idx = 1], "debian", TRUE)
    /\ UNCHANGED <<scan, mapperVars, validatorVars, processorVars, b, sourceTree,
                   caller, walkLog, archived>>

Visit(info, target, transformErr, needsSymlink, queueErr, err, copied) ==
    [path |-> info.path, isDir |-> info.isDir, target |-> target,
     transformErr |-> transformErr, needsSymlink |-> needsSymlink,
     queueErr |-> queueErr, err |-> err, copied |-> copied]

\* copyFiles: the walk function on the next entry of the source tree
WalkEntry ==
    /\ build.pc = "walk"
    /\ build.idx <= Len(WalkOrder(sourceTree))
    /\ LET info == WalkOrder(sourceTree)[build.idx]
           srcPath == b.SourceDir \o info.path
           absPath == Clean("/" \o info.path)
       IN  \E r \in TransformPath(pm, absPath) :
           LET transformedPath ==
                   IF r.err # "" THEN FallbackPath(pm, absPath) ELSE r.out
               needsSymlink == r.err = "" /\ r.needsSymlink
               done(queue, visit, st) ==
                   /\ symlinkQueue' = queue
                   /\ walkLog' = Append(walkLog, visit)
                   /\ staging' = st
                   /\ build' = IF visit.err # ""
                               THEN Traced(BuildFails(visit.err), "walk", FALSE)
                               ELSE [build EXCEPT !.idx = @ + 1]
           IN  IF \E i \in 1..Len(b.ExcludeDirs) : HasPrefix(srcPath, b.ExcludeDirs[i])
               THEN done(symlinkQueue,
                         Visit(info, "", "", FALSE, "", "", FALSE), staging)
               ELSE IF ValidatePath(NewValidator, transformedPath) # ""
               THEN done(symlinkQueue,
                         Visit(info, transformedPath, r.err, needsSymlink, "",
                               "path validation failed", FALSE), staging)
               ELSE IF ValidatePathTraversal(NewValidator, transformedPath) # ""
               THEN done(symlinkQueue,
                         Visit(info, transformedPath, r.err, needsSymlink, "",
                               "path traversal check failed", FALSE), staging)
               ELSE \E q \in (IF needsSymlink
                              THEN ProcessPath(pm, NewValidator, symlinkQueue, hostFS,
                                               absPath, transformedPath)
                              ELSE {[queue |-> symlinkQueue, err |-> ""]}) :
                    IF OnQueueError(q.err) # ""
                    THEN done(q.queue,
                              Visit(info, transformedPath, r.err, needsSymlink,
                                    q.err, OnQueueError(q.err), FALSE), staging)
                    ELSE IF info.isDir
                    THEN IF StageMkdirAllFails(staging, transformedPath)
                         THEN done(q.queue,
                                   Visit(info, transformedPath, r.err, needsSymlink,
                                         q.err, "failed to create directory", FALSE),
                                   staging)
                         ELSE done(q.queue,
                                   Visit(info, transformedPath, r.err, needsSymlink,
                                         q.err, "", TRUE),
                                   StageMkdirAll(staging, transformedPath, info.mode))
                    ELSE IF StageMkdirAllFails(staging, Dir(transformedPath))
                    THEN done(q.queue,
                              Visit(info, transformedPath, r.err, needsSymlink,
                                    q.err, "failed to create parent directory", FALSE),
                              staging)
                    ELSE IF StageWriteFails(
                                StageMkdirAll(staging, Dir(transformedPath), Mode0755),
                                transformedPath)
                    THEN done(q.queue,
                              Visit(info, transformedPath, r.err, needsSymlink,
                                    q.err, "failed to create target file", FALSE),
                              StageMkdirAll(staging, Dir(transformedPath), Mode0755))
                    ELSE done(q.queue,
                              Visit(info, transformedPath, r.err, needsSymlink,
                                    q.err, "", TRUE),
                              StageWriteFile(
                                  StageMkdirAll(staging, Dir(transformedPath), Mode0755),
                                  transformedPath, <<srcPath>>,
                                  FileMode(b, info.mode)))
    /\ UNCHANGED <<scan, mapperVars, validatorVars, queueMutex, dryRun, hostFS, thr,
                   opsStarted, b, sourceTree, caller, archived>>

ErrSymlinkScript == "failed to create symlink script"

\* The requests the walk can queue for the i-th of SourceEntries
RequestsAt(i) ==
    LET path == SourceEntries[i].path
    IN  UNION {{q.queue[1] :
                  q \in {q \in ProcessPath(NewPathMapper, NewValidator, <<>>, <<>>,
                                            path, r.out) : Len(q.queue) = 1}} :
               r \in {r \in TransformPath(NewPathMapper, Clean(path)) :
                        r.err = "" /\ r.needsSymlink}}

\* The queues a walk can leave: requests of entries in walk order
RECURSIVE QueuesFrom(_)
QueuesFrom(i) ==
    IF i > Len(SourceEntries) THEN {<<>>}
    ELSE LET rest == QueuesFrom(i + 1)
         IN  rest \cup {<<r>> \o q : r \in RequestsAt(i), q \in rest}

WalkQueues == QueuesFrom(1)

\* createSymlinkScript on each of these queues: the error of its
\* SetMaintainerScript("postinst", script), computed once for each queue
createSymlinkScriptErrors ==
    [queue \in WalkQueues |->
        ScriptError(NewPathMapper, "postinst", SymlinkScript(queue))]

\* A mutant of Build: the error of createSymlinkScript is dropped.
OnScriptErrorIgnore(err) == ""

\* Build: the error of createSymlinkScript is returned
OnScriptError(err) == err

\* Build, after copyFiles returned nil: createSymlinkScript when symlinks
\* are queued
BuildSymlinkScript ==
    /\ build.pc = "walk"
    /\ build.idx > Len(WalkOrder(sourceTree))
    /\ IF Len(symlinkQueue) > 0
       THEN LET res == StoreScript(b, "postinst", SymlinkScript(symlinkQueue),
                                   createSymlinkScriptErrors[symlinkQueue])
            IN  /\ b' = res.b
                /\ build' = IF OnScriptError(res.err) # ""
                            THEN Traced(Traced(BuildFails(ErrSymlinkScript),
                                               "walk", TRUE), "script", FALSE)
                            ELSE Traced(Traced([build EXCEPT !.pc = "audit"],
                                               "walk", TRUE), "script", res.err = "")
       ELSE /\ b' = b
            /\ build' = Traced([build EXCEPT !.pc = "audit"], "walk", TRUE)
    /\ UNCHANGED <<scan, mapperVars, validatorVars, processorVars, sourceTree, staging,
                   caller, walkLog, archived>>

\* Build: PathValidator.ValidatePackage(b.BuildDir)
BuildAudit ==
    /\ build.pc = "audit"
    /\ build' = IF ValidatePackage(NewValidator, staging) # ""
                THEN Traced([BuildFails("package validation failed")
                                EXCEPT !.audited = TRUE], "audit", FALSE)
                ELSE Traced([build EXCEPT !.pc = "archive", !.audited = TRUE],
                            "audit", TRUE)
    /\ UNCHANGED <<scan, mapperVars, validatorVars, processorVars, b, sourceTree,
                   staging, caller, walkLog, archived>>

\* Build: dpkg-deb --build runs on BuildDir; it fails without a control
\* file, and otherwise exits as it will.
BuildArchive ==
    /\ build.pc = "archive"
    /\ archived' = Append(archived, staging)
    /\ \E exitOK \in BOOLEAN :
          build' = IF exitOK /\ "/DEBIAN/control" \in DOMAIN staging
                   THEN Traced([build EXCEPT !.pc = "deferred"], "archive", TRUE)
                   ELSE Traced(BuildFails("failed to build package"), "archive", FALSE)
    /\ UNCHANGED <<scan, mapperVars, validatorVars, processorVars, b, sourceTree,
                   staging, caller, walkLog>>

\* Build returns: the deferred b.Clean() runs, the result is sent.
BuildReturn ==
    /\ build.pc = "deferred"
    /\ staging' = BuilderClean(staging)
    /\ build' = [build EXCEPT !.pc = "returned"]
    /\ UNCHANGED <<scan, mapperVars, validatorVars, processorVars, b, sourceTree,
                   caller, walkLog, archived>>

\* BuildWithTimeout receives the result of Build.
CallerReceive ==
    /\ caller.pc = "select"
    /\ build.pc = "returned"
    /\ caller' = [caller EXCEPT !.pc = "done", !.err = build.err]
    /\ UNCHANGED <<scan, mapperVars, validatorVars, processorVars, b, sourceTree,
                   staging, build, walkLog, archived>>

\* The timer of BuildWithTimeout fires first: Clean, and the timeout error;
\* Build goes on running.
CallerTimeout ==
    /\ caller.pc = "select"
    /\ staging' = BuilderClean(staging)
    /\ caller' = [caller EXCEPT !.pc = "done", !.err = ErrTimeout,
                                !.seen = Len(build.trace)]
    /\ UNCHANGED <<scan, mapperVars, validatorVars, processorVars, b, sourceTree,
                   build, walkLog, archived>>

NextBuild ==
    \/ CallSetMaintainerScript
    \/ CallForceScript
    \/ CallBuildWithTimeout
    \/ BuildValidate
    \/ BuildCreateDebianDir
    \/ WalkEntry
    \/ BuildSymlinkScript
    \/ BuildAudit
    \/ BuildArchive
    \/ BuildReturn
    \/ CallerReceive
    \/ CallerTimeout

SpecBuild == InitBuild /\ [][NextBuild]_vars

\* Whether the validations of copyFiles reject the path
FailsValidation(path) ==
    \/ ValidatePath(NewValidator, path) # ""
    \/ ValidatePathTraversal(NewValidator, path) # ""

\* The step in which copyFiles visits an entry and copies it
CopiesEntry ==
    /\ Len(walkLog') = Len(walkLog) + 1
    /\ walkLog'[Len(walkLog')].copied

\* What is copied is in the staging tree when the visit ends.
CopiedIsStaged ==
    CopiesEntry =>
        LET v == walkLog'[Len(walkLog')]
        IN  /\ v.target \in DOMAIN staging'
            /\ staging'[v.target].kind = IF v.isDir THEN "dir" ELSE "file"

\* C2: an entry whose transformed path fails validatePath or
\* validatePathTraversal aborts the build at once (it is the last entry
\* visited, nothing is copied for it, no audit, no archiver run), whereas an
\* entry whose symlink could not be queued is still copied to staging and the
\* walk goes on with the next entry.
C2_WalkFailurePolicy ==
    /\ [](\A i \in 1..Len(walkLog) :
            LET v == walkLog[i]
            IN  /\ (v.target # "" /\ FailsValidation(v.target)) =>
                      /\ i = Len(walkLog)
                      /\ ~v.copied
                      /\ build.pc \in {"deferred", "returned"}
                      /\ build.err = v.err
                      /\ v.err \in {"path validation failed",
                                    "path traversal check failed"}
                      /\ ~build.audited
                      /\ archived = <<>>
                /\ v.queueErr # "" =>
                      /\ v.err = ""
                      /\ v.copied
                      /\ i = Len(walkLog) =>
                            \/ build.pc = "walk" /\ build.idx = i + 1
                            \/ i = Len(WalkOrder(sourceTree)))
    /\ [][CopiedIsStaged]_vars

\* A symlink could not be queued for /bin and for /bin/app, both were copied,
\* and the walk went on to /boot, where the build aborted.
C2_Witness ==
    \E i, j \in 1..Len(walkLog) :
        /\ i < j
        /\ walkLog[i].queueErr # ""
        /\ walkLog[i].copied
        /\ walkLog[j].err = "path validation failed"
        /\ build.pc = "returned"

\* C3 (as stated): an entry for which no mapping rule matches is never copied
\* into the staging tree at its untransformed path.
C3_NoRuleNeverCopied ==
    \A i \in 1..Len(walkLog) :
        walkLog[i].transformErr = ErrNoRule =>
            ~(walkLog[i].copied /\ walkLog[i].target = walkLog[i].path)

\* C3 (amended): an entry for which no mapping rule matches keeps its
\* untransformed path; no symlink is queued for it, and unless that path
\* fails validation the entry is copied into the staging tree at it.
C3_NoRuleCopiedUntransformed ==
    /\ [](\A i \in 1..Len(walkLog) :
            LET v == walkLog[i]
            IN  v.transformErr = ErrNoRule =>
                    /\ v.target = v.path
                    /\ ~v.needsSymlink
                    /\ v.queueErr = ""
                    /\ \A k \in 1..Len(symlinkQueue) : symlinkQueue[k].Target # v.path
                    /\ ~FailsValidation(v.path) => (v.copied /\ v.err = ""))
    /\ [][CopiedIsStaged]_vars
    /\ [][CopiesEntry => walkLog'[Len(walkLog')].err = ""]_vars

\* /srv/data, for which no rule matches, is in the staging tree at /srv/data.
C3_Witness ==
    /\ \E i \in 1..Len(walkLog) :
          /\ walkLog[i].transformErr = ErrNoRule
          /\ walkLog[i].path = "/srv/data"
          /\ walkLog[i].copied
    /\ "/srv/data" \in DOMAIN staging
    /\ staging["/srv/data"].kind = "file"

\* C4: when a build has completed successfully with symlinks queued, the
\* staging tree the archiver ran on holds, in its DEBIAN directory, the
\* generated postinst that recreates every queued symlink.
C4_SymlinkScriptArchived ==
    (build.pc = "returned" /\ build.err = "" /\ Len(symlinkQueue) > 0) =>
        /\ Len(archived) = 1
        /\ "/DEBIAN/postinst" \in DOMAIN archived[1]
        /\ archived[1]["/DEBIAN/postinst"].content = SymlinkScript(symlinkQueue)

Rank(step) ==
    CASE step = "validate" -> 1
      [] step = "debian" -> 2
      [] step = "walk" -> 3
      [] step = "script" -> 4
      [] step = "audit" -> 5
      [] step = "archive" -> 6

HasStep(name) == \E i \in 1..Len(build.trace) : build.trace[i].step = name

\* C23: in every build the steps occur in the order metadata validation
\* (non-empty name and version), walk, generated-symlink-script validation
\* (only when the queue is non-empty), whole-tree audit, external archiver;
\* each step starts only if every earlier step succeeded, none is skipped,
\* the archiver runs only as the audited last step, and a successful result
\* is returned only after the archiver succeeded.
C23_BuildStepOrder ==
    LET tr == build.trace
    IN  /\ \A i, j \in 1..Len(tr) : i < j => Rank(tr[i].step) < Rank(tr[j].step)
        /\ \A i \in 1..(Len(tr) - 1) : tr[i].ok
        /\ Len(tr) > 0 =>
              /\ tr[1].step = "validate"
              /\ tr[1].ok <=> (b.Package.Name # "" /\ b.Package.Version # "")
        /\ HasStep("script") => (HasStep("walk") /\ Len(symlinkQueue) > 0)
        /\ HasStep("audit") =>
              /\ HasStep("walk")
              /\ Len(symlinkQueue) > 0 => HasStep("script")
        /\ HasStep("archive") => HasStep("audit")
        /\ Len(archived) = (IF HasStep("archive") THEN 1 ELSE 0)
        /\ (build.pc = "returned" /\ build.err = "") =>
              tr[Len(tr)] = Step("archive", TRUE)
        /\ (caller.pc = "done" /\ caller.err = "") =>
              (Len(tr) > 0 /\ tr[Len(tr)] = Step("archive", TRUE))

\* A build with queued symlinks went through every step and returned the
\* package to the caller.
C23_Witness ==
    /\ caller.pc = "done"
    /\ caller.err = ""
    /\ Len(symlinkQueue) > 0
    /\ build.trace = <<Step("validate", TRUE), Step("debian", TRUE),
                       Step("walk", TRUE), Step("script", TRUE),
                       Step("audit", TRUE), Step("archive", TRUE)>>

\* The caller has reported a timeout
TimedOut == caller.pc = "done" /\ caller.err = ErrTimeout

\* The step in which the timer of BuildWithTimeout fires
TimerFires == caller.pc = "select" /\ caller'.pc = "done" /\ caller'.err = ErrTimeout

\* A step of the goroutine that runs Build
BuildRuns ==
    \/ BuildValidate
    \/ BuildCreateDebianDir
    \/ WalkEntry
    \/ BuildSymlinkScript
    \/ BuildAudit
    \/ BuildArchive
    \/ BuildReturn

\* C24: when the timer of the timeout-bounded build fires, the caller
\* reports a timeout and the staging directory is removed, but the build
\* unit is not cancelled: the step leaves it where it was, and what Build
\* does afterwards are the steps it would have taken anyway.
C24_TimeoutDoesNotCancel ==
    /\ [][TimerFires => (staging' = <<>> /\ build' = build)]_vars
    /\ [][(TimedOut /\ build' # build) => BuildRuns]_vars

\* The timer fired when Build had only validated the metadata; after the
\* timeout was reported Build created the control directory, copied an entry
\* into the staging directory, ran the audit and the archiver.
C24_Witness ==
    /\ TimedOut
    /\ caller.seen = 1
    /\ build.trace[Len(build.trace)] = Step("archive", TRUE)
    /\ HasStep("audit")
    /\ \E i \in 1..Len(walkLog) :
          walkLog[i].copied /\ walkLog[i].target \in DOMAIN archived[1]

\* The Script Validator's verdict at the Medium level, with the Path Mapper,
\* on the script generated for each queue a walk can leave
MediumVerdicts ==
    [queue \in WalkQueues |->
        ValidateScript(NewScriptValidator(SecurityLevelMedium, NewPathMapper),
                       "postinst", SymlinkScript(queue)).Valid]

\* The step in which Build submits the generated script
SubmitsGenerated ==
    /\ ~HasStep("script")
    /\ Len(build'.trace) > 0
    /\ build'.trace[Len(build'.trace)].step = "script"

\* C25: when the symlink queue is non-empty after the walk, the generated
\* script is submitted to the Script Validator at the Medium level with the
\* Path Mapper, as a user script is, and stored only if it is valid; if it
\* fails that validation the build fails there, with no audit and no
\* archiver invocation.
C25_GeneratedScriptValidated ==
    /\ [](\A i \in 1..Len(build.trace) :
            /\ (build.trace[i] = Step("walk", TRUE) /\ Len(symlinkQueue) > 0)
                  => HasStep("script")
            /\ build.trace[i] = Step("script", FALSE) =>
                  /\ i = Len(build.trace)
                  /\ build.pc \in {"deferred", "returned"}
                  /\ build.err = ErrSymlinkScript
                  /\ ~build.audited
                  /\ archived = <<>>)
    /\ [][SubmitsGenerated =>
            LET script == SymlinkScript(symlinkQueue)
                valid == MediumVerdicts[symlinkQueue]
            IN  /\ Len(symlinkQueue) > 0
                /\ pm = NewPathMapper
                /\ build'.trace[Len(build'.trace)].ok = valid
                /\ IF valid
                   THEN b' = [b EXCEPT !.Scripts = ("postinst" :> script) @@ @]
                   ELSE b' = b]_vars

\* With a symlink queued for /etc/init.d/svc the generated script failed its
\* validation, and Build returned that failure without audit or archiver.
C25_Witness ==
    /\ build.pc = "returned"
    /\ build.err = ErrSymlinkScript
    /\ \E k \in 1..Len(symlinkQueue) : symlinkQueue[k].Target = "/etc/init.d/svc"
    /\ build.trace[Len(build.trace)] = Step("script", FALSE)
    /\ archived = <<>>

\* The mode of the source entry at the path
SourceMode(path) ==
    (CHOOSE e \in {SourceEntries[i] : i \in 1..Len(SourceEntries)} : e.path = path).mode

\* Whether any execute bit (0100, 0010, 0001) is set
AnyExecuteBit(mode) ==
    ModeHasBit(mode, 64) \/ ModeHasBit(mode, 8) \/ ModeHasBit(mode, 1)

\* C26: unless permission preservation is requested, every regular file is
\* staged with mode 0644, promoted to 0755 if any execute bit was set on the
\* source file; with permission preservation the source mode is kept.
C26_StagedFilePermissions ==
    [][(CopiesEntry /\ ~walkLog'[Len(walkLog')].isDir) =>
          LET v == walkLog'[Len(walkLog')]
          IN  staging'[v.target].mode =
                  IF b.PreservePerms THEN SourceMode(v.path)
                  ELSE IF AnyExecuteBit(SourceMode(v.path)) THEN Mode0755
                  ELSE Mode0644]_vars

\* The step in which the caller's SetMaintainerScript call returns
SetsScript == caller.script = NoScript /\ caller'.script # NoScript

\* The step in which the caller stores its script by its override
ForcesScript == ~caller.forced /\ caller'.forced

\* C27: setting a maintainer script succeeds only for the four names
\* preinst, postinst, prerm, postrm and only when the Script Validator
\* (Medium level) returns valid; on an unrecognized name or a failed
\* validation an error is returned and the stored script map is unchanged;
\* so the script map changes only by a script that passed validation or by
\* the caller's explicit override.
C27_ScriptSlots ==
    /\ [][SetsScript =>
            LET script == caller'.script
                accepted ==
                    /\ script.name \in {"preinst", "postinst", "prerm", "postrm"}
                    /\ ValidateScript(NewScriptValidator(SecurityLevelMedium, pm),
                                      script.name, script.content).Valid
            IN  /\ caller'.scriptErr = "" <=> accepted
                /\ IF accepted
                   THEN b' = [b EXCEPT !.Scripts =
                                 (script.name :> script.content) @@ @]
                   ELSE b' = b]_vars
    /\ [][b'.Scripts # b.Scripts =>
            \/ SetsScript /\ caller'.scriptErr = ""
            \/ ForcesScript
            \/ SubmitsGenerated /\ build'.trace[Len(build'.trace)].ok]_vars
    /\ [](DOMAIN b.Scripts \subseteq {"preinst", "postinst", "prerm", "postrm"})

\* The caller's postinst with rm -rf /bin/ls was refused and no script is
\* stored; the caller went on to build without it.
C27_Witness ==
    /\ caller.script = [name |-> "postinst", content |-> <<"#!/bin/sh", "rm -rf /bin/ls">>]
    /\ caller.scriptErr = ErrScriptValidation
    /\ ~caller.forced
    /\ DOMAIN b.Scripts = {}
    /\ caller.pc = "select"

\* The entries of the staging tree outside the control subdirectory
StagedOutsideControl ==
    {path \in DOMAIN staging :
        path # "/" /\ path # "/DEBIAN" /\ ~HasPrefix(path, "/DEBIAN/")}

\* The entries of the source tree the walk has copied
CopiedVisits == {i \in 1..Len(walkLog) : walkLog[i].copied}

\* The walk function has just returned for one more entry
WalkVisits == Len(walkLog') = Len(walkLog) + 1

LastVisit == walkLog'[Len(walkLog')]

\* C30: throughout the walk every entry of the staging tree outside the
\* control subdirectory is the target of a source entry whose path passed
\* ValidatePath and ValidatePathTraversal in the visit that created it, or a
\* directory above such a target, and passes both checks; no entry is staged
\* at or under a forbidden path; and a source entry whose transformed path, or
\* whose own path when no rule matches, is forbidden ends the walk with the
\* validation error, nothing staged for it and nothing queued.
C30_StagedPathsValidated ==
    /\ [](\A path \in StagedOutsideControl :
             /\ \E i \in CopiedVisits :
                   /\ path \in Ancestors(walkLog[i].target)
                   /\ ValidatePath(NewValidator, walkLog[i].target) = ""
                   /\ ValidatePathTraversal(NewValidator, walkLog[i].target) = ""
             /\ ValidatePath(NewValidator, path) = ""
             /\ ValidatePathTraversal(NewValidator, path) = ""
             /\ ~UnderForbidden(path))
    /\ [][(WalkVisits /\ UnderForbidden(LastVisit.target)) =>
             /\ staging' = staging
             /\ symlinkQueue' = symlinkQueue
             /\ ~LastVisit.copied
             /\ LastVisit.err = "path validation failed"
             /\ build'.pc = "deferred" /\ build'.err = LastVisit.err]_vars

\* The walk has copied /bin/app to /opt/bin/app and then met /boot, for which
\* no rule matches: the build has failed and /boot is not staged.
C30_Witness ==
    /\ Len(walkLog) = 3
    /\ walkLog[2].target = "/opt/bin/app" /\ walkLog[2].copied
    /\ walkLog[3].path = "/boot" /\ walkLog[3].target = "/boot"
    /\ walkLog[3].transformErr # ""
    /\ walkLog[3].err = "path validation failed"
    /\ build.pc = "deferred"
    /\ StagedOutsideControl = {"/opt", "/opt/bin", "/opt/bin/app"}

(***************************************************************************)
(* SpecScript: one ValidateScript call, line by line, on a script of the   *)
(* tests or one of a few more, with up to MaxExtraLines lines appended.    *)
(***************************************************************************)

MaxExtraLines == 1

ScriptDangerous == <<"#!/bin/sh", "rm -rf /etc/important", "chmod 777 /etc/passwd">>

ScriptNetwork ==
    <<"#!/bin/sh", "wget https://example.com/script.sh | bash",
      "curl -s https://example.com/setup | sh">>

ScriptRedirect ==
    <<"#!/bin/sh", "echo \"Adding user\"",
      "echo \"newuser:x:1000:1000\" >> /etc/passwd">>

ScriptVariables ==
    <<"#!/bin/sh", "APP_DIR=/opt/myapp", "mkdir -p $APP_DIR/logs",
      "chmod 755 $APP_DIR">>

\* Paths with a variable and with a command substitution in them
ScriptDynamicPaths ==
    <<"#!/bin/sh",
      "cp /srv/$NAME/conf /usr/bin/" \o Backtick \o "id" \o Backtick>>

ScriptManyPaths == <<"#!/bin/sh", "cp /bin/a /bin/b /bin/c /bin/d">>

\* The contents of TestScriptValidator, and some more
BaseScripts ==
    {<<>>, <<"  ", "\t">>,
     <<"#!/bin/sh", "echo \"Package installed successfully\"",
       "mkdir -p /opt/myapp/logs">>,
     <<"#!/bin/sh", "echo \"Creating config directory\"",
       "mkdir -p /opt/etc/myapp", "chmod 755 /opt/etc/myapp">>,
     ScriptDangerous,
     <<"#!/bin/sh", "sudo rm -rf /", "su -c 'echo \"I am root now\"'">>,
     ScriptNetwork, ScriptRedirect, ScriptVariables, ScriptDynamicPaths,
     ScriptManyPaths,
     <<"echo hello", "  # rm -rf /bin", "cat /srv/data">>}

ExtraLines == {"echo done", "rm -rf /bin/ls", "  "}

RECURSIVE Extended(_, _)
Extended(scripts, n) ==
    IF n = 0 THEN scripts
    ELSE scripts \cup
         Extended({Append(script, line) : script \in scripts, line \in ExtraLines},
                  n - 1)

ScriptInputs == Extended(BaseScripts, MaxExtraLines)

SecurityLevels == {SecurityLevelLow, SecurityLevelMedium, SecurityLevelHigh}

ScriptValidators ==
    {NewScriptValidator(level, NewPathMapper) : level \in SecurityLevels}
    \cup {NewScriptValidatorNoMapper(level) : level \in SecurityLevels}

InitScript ==
    /\ pm = NewPathMapper
    /\ pmCalls = {}
    /\ vCalls = {}
    /\ ProcessorIdle
    /\ BuilderIdle
    /\ \E sv \in ScriptValidators, lines \in ScriptInputs :
          scan = [sv |-> sv, lines |-> lines, pc |-> "start", pos |-> 0,
                  warnings |-> 0, errors |-> 0, risk |-> 0, submitted |-> {},
                  result |-> <<>>]

\* ValidateScript: the empty check, then the shebang check
ScanBegin ==
    /\ scan.pc = "start"
    /\ scan' = IF IsEmptyContent(scan.lines)
               THEN [scan EXCEPT !.pc = "done", !.warnings = EmptyResult.Warnings,
                                 !.result = <<EmptyResult>>]
               ELSE [scan EXCEPT !.pc = "scan", !.pos = 1,
                                 !.warnings = ShebangWarning(scan.lines)]
    /\ UNCHANGED <<mapperVars, validatorVars, processorVars, builderVars>>

\* The counts after a line with the findings f
Counted(f) ==
    [scan EXCEPT !.pos = @ + 1, !.warnings = f.warnings, !.errors = f.errors,
                 !.risk = f.risk]

\* ValidateScript: one turn of the scan loop
ScanLine ==
    /\ scan.pc = "scan"
    /\ scan.pos <= Len(scan.lines)
    /\ LET line == scan.lines[scan.pos]
       IN  scan' =
             IF IsSkipped(line) THEN [scan EXCEPT !.pos = @ + 1]
             ELSE [Counted(AddFindings(
                        [warnings |-> scan.warnings, errors |-> scan.errors,
                         risk |-> scan.risk],
                        LineFindings(scan.sv, line)))
                    EXCEPT !.submitted =
                        @ \cup {m.path : m \in SubmittedIn(scan.sv, line)}]
    /\ UNCHANGED <<mapperVars, validatorVars, processorVars, builderVars>>

\* ValidateScript: the verdict for the security level
ScanVerdict ==
    /\ scan.pc = "scan"
    /\ scan.pos > Len(scan.lines)
    /\ scan' = [scan EXCEPT !.pc = "done",
                  !.result = <<Verdict(scan.sv.securityLevel, scan.warnings,
                                       scan.errors, scan.risk)>>]
    /\ UNCHANGED <<mapperVars, validatorVars, processorVars, builderVars>>

NextScript == ScanBegin \/ ScanLine \/ ScanVerdict

SpecScript == InitScript /\ [][NextScript]_vars

ScanDone == scan.pc = "done"

ScanResult == scan.result[1]

\* A scanned line that names a dangerous command and a protected path
CommandOnProtectedPath(line) ==
    /\ ~IsSkipped(line)
    /\ \E cmd \in DOMAIN dangerousCommands : MatchWord(cmd, line)
    /\ \E i \in 1..Len(protectedPaths) : Contains(line, protectedPaths[i])

HasCommandOnProtectedPath(lines) ==
    \E i \in 1..Len(lines) : CommandOnProtectedPath(lines[i])

\* The scan loop passes over a line that names a dangerous command and a
\* protected path
ScansCommandOnProtectedPath ==
    /\ scan.pc = "scan"
    /\ scan'.pos = scan.pos + 1
    /\ CommandOnProtectedPath(scan.lines[scan.pos])

\* C11: every non-blank, non-comment line that matches a dangerous command
\* and references a protected path adds an error; a script with such a line
\* is invalid under Medium and High; the script with rm -rf /etc/important
\* and chmod 777 /etc/passwd is rejected under Medium with errors > 0.
C11_CommandOnProtectedPathIsError ==
    [][/\ ScansCommandOnProtectedPath => scan'.errors > scan.errors
       /\ (/\ scan'.pc = "done"
           /\ HasCommandOnProtectedPath(scan'.lines)
           /\ scan'.sv.securityLevel \in {SecurityLevelMedium, SecurityLevelHigh})
          => ~scan'.result[1].Valid /\ scan'.result[1].Errors > 0
       /\ (/\ scan'.pc = "done"
           /\ scan'.lines = ScriptDangerous
           /\ scan'.sv.securityLevel = SecurityLevelMedium)
          => ~scan'.result[1].Valid /\ scan'.result[1].Errors > 0]_vars

C11_Witness ==
    /\ ScanDone
    /\ scan.lines = ScriptDangerous
    /\ scan.sv = NewScriptValidatorNoMapper(SecurityLevelMedium)
    /\ ~ScanResult.Valid
    /\ ScanResult.Errors = 1

\* The verdict the thresholds give for a level and the final counts
InvalidFor(level, warnings, errors, risk) ==
    \/ level = SecurityLevelLow /\ (errors > 3 \/ risk > 8)
    \/ level = SecurityLevelMedium /\ (errors > 0 \/ risk > 6)
    \/ level = SecurityLevelHigh /\ (errors > 0 \/ warnings > 3 \/ risk > 4)

\* C12: the valid flag is a function of the security level and the final
\* counts only: empty content is valid at every level with at least one
\* warning; otherwise Low is invalid iff errors > 3 or risk > 8, Medium iff
\* errors > 0 or risk > 6, High iff errors > 0 or warnings > 3 or risk > 4.
C12_VerdictByLevelAndCounts ==
    ScanDone =>
        /\ ScanResult.Warnings = scan.warnings
        /\ ScanResult.Errors = scan.errors
        /\ ScanResult.RiskLevel = scan.risk
        /\ IF IsEmptyContent(scan.lines)
           THEN ScanResult.Valid /\ ScanResult.Warnings >= 1
           ELSE ScanResult.Valid =
                  ~InvalidFor(scan.sv.securityLevel, ScanResult.Warnings,
                              ScanResult.Errors, ScanResult.RiskLevel)

\* Under High a script is rejected for its four warnings alone
C12_Witness ==
    /\ ScanDone
    /\ scan.lines = ScriptManyPaths
    /\ scan.sv = NewScriptValidator(SecurityLevelHigh, NewPathMapper)
    /\ ScanResult = [Valid |-> FALSE, Warnings |-> 4, Errors |-> 0, RiskLevel |-> 0]

\* C13: under Medium security a script that pipes a download into a shell
\* (wget URL | bash, curl -s URL | sh) is rejected, and a script that appends
\* to a protected path by redirection (echo ... >> /etc/passwd) is rejected.
C13_PipeAndRedirectRejected ==
    (/\ ScanDone
     /\ scan.sv.securityLevel = SecurityLevelMedium
     /\ scan.lines \in {ScriptNetwork, ScriptRedirect})
    => ~ScanResult.Valid

\* The script without its last line
Front(lines) == SubSeq(lines, 1, Len(lines) - 1)

\* C14: the risk score never decreases across the line-by-line scan: no
\* step subtracts from it, and the final score of a script is never lower
\* than the final score of the script without its last line.
C14_RiskNonDecreasing ==
    [][/\ scan'.risk >= scan.risk
       /\ (scan'.pc = "done" /\ Len(scan'.lines) > 0)
          => scan'.result[1].RiskLevel >=
               ValidateScript(scan'.sv, "postinst", Front(scan'.lines)).RiskLevel]_vars

\* A further line raised the final score of the script of C11 from 11 to 18
C14_Witness ==
    /\ ScanDone
    /\ scan.lines = Append(ScriptDangerous, "rm -rf /bin/ls")
    /\ ValidateScript(scan.sv, "postinst", ScriptDangerous).RiskLevel = 11
    /\ ScanResult.RiskLevel = 18

\* A token with a variable or a command substitution in it
HasDollarOrBacktick(path) == Contains(path, "$") \/ Contains(path, Backtick)

\* The scan loop passes over a scanned line whose path tokens, and it has
\* some, all hold a variable or a command substitution
ScansOnlyDynamicPaths ==
    /\ scan.pc = "scan"
    /\ scan'.pos = scan.pos + 1
    /\ ~IsSkipped(scan.lines[scan.pos])
    /\ extractPaths(scan.lines[scan.pos]) # {}
    /\ \A m \in extractPaths(scan.lines[scan.pos]) : HasDollarOrBacktick(m.path)

\* C15: the script that names its directory by a shell variable only is
\* accepted under Medium; a path token with $ or a backtick in it is never
\* submitted to the Path Mapper and adds no warning.
C15_DynamicPathsSkipped ==
    [][/\ \A path \in scan'.submitted : ~HasDollarOrBacktick(path)
       /\ ScansOnlyDynamicPaths =>
            /\ scan'.submitted = scan.submitted
            /\ scan'.warnings = scan.warnings
                  + Cardinality(PatternsIn(scan.lines[scan.pos]))
                  + Cardinality(CommandsIn(scan.lines[scan.pos]))
       /\ (/\ scan'.pc = "done"
           /\ scan'.lines = ScriptVariables
           /\ scan'.sv.securityLevel = SecurityLevelMedium)
          => scan'.result[1].Valid]_vars

\* With a Path Mapper, the script whose two path tokens hold $NAME and a
\* command substitution ends without any warning and nothing submitted
C15_Witness ==
    /\ ScanDone
    /\ scan.lines = ScriptDynamicPaths
    /\ scan.sv = NewScriptValidator(SecurityLevelMedium, NewPathMapper)
    /\ Cardinality(extractPaths(scan.lines[2])) = 2
    /\ scan.submitted = {}
    /\ ScanResult = [Valid |-> TRUE, Warnings |-> 0, Errors |-> 0, RiskLevel |-> 0]

(***************************************************************************)
(* SpecAudit: a package directory is put together entry by entry, as the   *)
(* tests do, the host changes, and the Validator's ValidatePackage and     *)
(* ValidateSymlink are called in between. vCalls holds the last call.      *)
(***************************************************************************)

PkgDirs == {"/", "/DEBIAN", "/DEBIAN/hooks", "/boot"}

PkgFiles == {"/DEBIAN", "/DEBIAN/control", "/DEBIAN/README", "/DEBIAN/hooks/postinst"}

InitAudit ==
    /\ pm = NewPathMapper
    /\ pmCalls = {}
    /\ vCalls = {}
    /\ ProcessorIdle
    /\ BuilderIdle
    /\ ScanIdle

\* os.Mkdir(path, 0755): the directory above must be there, the path not
PkgMkdir ==
    /\ \E path \in PkgDirs :
          /\ path \notin DOMAIN staging
          /\ path # "/" => (Dir(path) \in DOMAIN staging /\ staging[Dir(path)].kind = "dir")
          /\ staging' = (path :> DirEntry(Mode0755)) @@ staging
    /\ UNCHANGED <<scan, mapperVars, validatorVars, processorVars, b, sourceTree,
                   build, caller, walkLog, archived>>

\* ioutil.WriteFile(path, content, 0644) of a new file in a directory
PkgWriteFile ==
    /\ \E path \in PkgFiles :
          /\ path \notin DOMAIN staging
          /\ Dir(path) \in DOMAIN staging /\ staging[Dir(path)].kind = "dir"
          /\ staging' = StageWriteFile(staging, path, "test", Mode0644)
    /\ UNCHANGED <<scan, mapperVars, validatorVars, processorVars, b, sourceTree,
                   build, caller, walkLog, archived>>

\* validator.ValidatePackage(packageDir) on the directory as it is now
ValidatePackageCall ==
    /\ vCalls' = {[fn |-> "ValidatePackage", dir |-> staging,
                   err |-> ValidatePackage(NewValidator, staging)]}
    /\ UNCHANGED <<scan, builderVars, mapperVars, processorVars>>

\* The arguments of TestValidateSymlink, below /opt/app and /system/bin
\* instead of the temporary directory, and some more
SymlinkSources ==
    {"/opt/app/source.txt", "/opt/app/parent", "/system/bin", "relative/source"}

SymlinkTargets ==
    {"/opt/app/target.txt", "/system/bin/app", "/system/bin", "/bin/bash",
     "/opt/app/parent/child", "/opt/app/parent2"}

\* validator.ValidateSymlink(source, target) on the host as it is now
ValidateSymlinkCall ==
    /\ \E source \in SymlinkSources, target \in SymlinkTargets :
          vCalls' = {[fn |-> "ValidateSymlink", source |-> source,
                      target |-> target, host |-> DOMAIN hostFS,
                      err |-> ValidateSymlink(NewValidator, source, target, hostFS)]}
    /\ UNCHANGED <<scan, builderVars, mapperVars, processorVars>>

\* WithPolicy
WithPolicy(v, policy) == [v EXCEPT !.policy = policy]

\* A policy of a caller's own, with a short maximum length
CustomPolicy ==
    [ForbiddenPaths |-> <<"/srv">>,
     RestrictedPaths |-> <<"/etc">>,
     AllowedExtensions |-> {".conf"},
     MaxPathLength |-> 16,
     DisallowDotDot |-> FALSE]

PathValidators == {NewValidator, WithPolicy(NewValidator, CustomPolicy)}

RECURSIVE Doubled(_, _)
Doubled(s, times) == IF times = 0 THEN s ELSE Doubled(s \o s, times - 1)

\* 4096 bytes, as TestValidatePath makes 5000
LongName == Doubled("a", 12)

\* The paths of TestValidatePath and some more: at and next to a forbidden
\* path, restricted, with an extension outside the list, of the maximum
\* length and one byte longer
ValidatePathInputs ==
    {"", "etc/passwd", "/opt/myapp/config.json", "/bin/dangerous",
     "/opt/myapp/../../../etc/passwd", "/opt/myapp/%2e%2e/config",
     "/opt/etc/myapp.conf",
     "/bin", "/binary", "/usr/bin/", "/./boot/x", "/opt/../bin/x",
     "/bin/../etc/x", "/srv/../etc/x.conf", "/srv/app.exe", "/srv",
     "/etc/passwd", "/etc/ssh/id.key", "/etc/app.conf", "/home/u/.bashrc",
     "/var/lib/app/data", "/var/lib/app/dat",
     "/" \o LongName, "/" \o SubSeq(LongName, 1, Len(LongName) - 1)}

\* validator.ValidatePath(path), with what it hands to v.log
ValidatePathAnswers ==
    {[fn |-> "ValidatePath", v |-> v, path |-> path,
      logged |-> PathWarnings(v, Clean(path)),
      err |-> ValidatePath(v, path)] : v \in PathValidators, path \in ValidatePathInputs}

ValidatePathCall ==
    /\ \E c \in ValidatePathAnswers : vCalls' = {c}
    /\ UNCHANGED <<scan, builderVars, mapperVars, processorVars>>

NextAudit ==
    \/ PkgMkdir
    \/ PkgWriteFile
    \/ ValidatePackageCall
    \/ ValidateSymlinkCall
    \/ ValidatePathCall
    \/ HostCreate

SpecAudit == InitAudit /\ [][NextAudit]_vars

\* Whether the tree has the top-level control subdirectory
HasControlDir(st) == "/DEBIAN" \in DOMAIN st /\ st["/DEBIAN"].kind = "dir"

\* The entries of the control subdirectory, at any depth
ControlEntries(st) == {path \in DOMAIN st : HasPrefix(path, "/DEBIAN/")}

\* C19: the audit fails when the tree has no top-level control subdirectory,
\* fails when that subdirectory has no control file, and fails when the
\* control subdirectory contains an entry, file or directory, whose name is
\* outside the whitelist.
C19_ControlDirRules ==
    \A c \in vCalls :
        c.fn = "ValidatePackage" =>
            /\ ~HasControlDir(c.dir) => c.err # ""
            /\ "/DEBIAN/control" \notin DOMAIN c.dir => c.err # ""
            /\ (\E path \in ControlEntries(c.dir) : Base(path) \notin validDebianFiles)
                  => c.err # ""

\* C20: validateSymlink(source, target) fails when either path fails
\* validatePath, when target equals or lies under a forbidden prefix, when an
\* entry exists at target, and when target has source as a prefix; in every
\* other case it succeeds.
C20_ValidateSymlinkCases ==
    \A c \in vCalls :
        c.fn = "ValidateSymlink" =>
            (c.err # "" <=>
                \/ ValidatePath(NewValidator, c.source) # ""
                \/ ValidatePath(NewValidator, c.target) # ""
                \/ UnderForbidden(c.target)
                \/ c.target \in c.host
                \/ HasPrefix(c.target, c.source))

\* On a host that has changed since, the pair of the test's cyclic case was
\* rejected by the prefix heuristic, every other check having passed.
C20_Witness ==
    /\ "/system/bin/app" \in DOMAIN hostFS
    /\ \E c \in vCalls :
          /\ c.fn = "ValidateSymlink"
          /\ c.source = "/opt/app/parent"
          /\ c.target = "/opt/app/parent/child"
          /\ c.target \notin c.host
          /\ c.err = "symlink would create a cycle"

\* Whether the path is, or lies under, a forbidden path of the policy
UnderForbiddenOf(policy, path) ==
    \E i \in 1..Len(policy.ForbiddenPaths) :
        \/ path = policy.ForbiddenPaths[i]
        \/ HasPrefix(path, policy.ForbiddenPaths[i] \o "/")

\* The four failures of C21, the path taken in its normal form for the last
FailsByRule(policy, path) ==
    \/ path = ""
    \/ ~HasPrefix(path, "/")
    \/ Len(path) > policy.MaxPathLength
    \/ UnderForbiddenOf(policy, Clean(path))

\* C21: validatePath(p) fails when p is empty, when p is not absolute, when
\* p is longer than the configured maximum, and when p equals or lies under
\* a forbidden path; a path that matches a restricted prefix or carries an
\* extension outside the allowed set, and is otherwise in order (none of the
\* four, and no ".." in it), is accepted.
C21_ValidatePathFailures ==
    \A c \in vCalls :
        c.fn = "ValidatePath" =>
            /\ FailsByRule(c.v.policy, c.path) => c.err # ""
            /\ (/\ c.logged # {}
                /\ ~FailsByRule(c.v.policy, c.path)
                /\ ~Contains(c.path, ".."))
                  => c.err = ""

\* The default validator accepted a restricted path, with a warning.
C21_Witness ==
    \E c \in vCalls :
        /\ c.fn = "ValidatePath"
        /\ c.v = NewValidator
        /\ c.path = "/etc/passwd"
        /\ c.logged = {"Warning: Accessing restricted path"}
        /\ c.err = ""

(***************************************************************************)
(* SpecMapper: TransformPath applied to a bounded set of paths under the   *)
(* mapper configurations the tests construct.                              *)
(***************************************************************************)

MaxCalls == 2

MapperConfigs ==
    {NewPathMapper,
     WithBaseTransformDir(NewPathMapper, "/custom"),
     WithCustomMapping(NewPathMapper, "/custom/dir", "/opt/special/dir"),
     WithSymlinkDir(NewPathMapper, "/var/log"),
     WithCustomMapping(NewPathMapper, "/usr/local", "/opt/local")}

MapperSuffixes == {"", "/app", "/local/../bin/app"}

MapperPaths ==
    {d \o s : d \in DOMAIN DefaultSystemDirs, s \in MapperSuffixes}
    \cup {"", "/opt", "/opt/bin/app", "/opt/../opt/bin", "/optional/bin",
          "/some/random/path", "/custom/dir/file", "/usr/bin/app",
          "/etc/systemd/system/a.service", "/var/log/app.log",
          "/etc/systemd/system", "/etc/systemd/system/myapp.service",
          "/usr/bin/myapp", "/var/log/myapp.log", "/etc/systemdesk/",
          "/var/logs/myapp.log", "/etc/init.d/../systemd/system/x",
          "/usr/local/bin/app", "/usr/local"}

CallRecord(path, r) ==
    [path |-> path, out |-> r.out, needsSymlink |-> r.needsSymlink, err |-> r.err]

InitMapper ==
    /\ pm \in MapperConfigs
    /\ pmCalls = {}
    /\ vCalls = {}
    /\ ProcessorIdle
    /\ BuilderIdle
    /\ ScanIdle

\* A caller transforms one of the input paths.
MapperTransform ==
    /\ Cardinality(pmCalls) < MaxCalls
    /\ \E path \in MapperPaths :
          \E r \in TransformPath(pm, path) :
             pmCalls' = pmCalls \cup {CallRecord(path, r)}
    /\ UNCHANGED <<scan, builderVars, pm, validatorVars, processorVars>>

\* A caller transforms the result of an earlier successful call.
MapperTransformAgain ==
    /\ Cardinality(pmCalls) < MaxCalls
    /\ \E c \in pmCalls :
          /\ c.err = ""
          /\ \E r \in TransformPath(pm, c.out) :
                pmCalls' = pmCalls \cup {CallRecord(c.out, r)}
    /\ UNCHANGED <<scan, builderVars, pm, validatorVars, processorVars>>

NextMapper == MapperTransform \/ MapperTransformAgain

SpecMapper == InitMapper /\ [][NextMapper]_vars

\* "p equals dir or is a descendant of it": the segment-wise reading of
\* "under" that the claims and the tests use.
UnderDir(p, dir) == p = dir \/ HasPrefix(p, dir \o "/")

\* C6: for every path under a configured system prefix, under every mapper
\* configuration (a non-default secure root included), transform succeeds with
\* a path under the mapper's secure root, and transforming that result again
\* returns it unchanged with needsSymlink = FALSE.
C6_TransformUnderRootIdempotent ==
    \A c \in pmCalls :
        IsSystemPath(pm, c.path) =>
            /\ c.err = ""
            /\ UnderDir(c.out, pm.baseTransformDir)
            /\ \A d \in pmCalls :
                  d.path = c.out =>
                      d.err = "" /\ d.out = c.out /\ ~d.needsSymlink

\* C7: transform fails with NoRuleMatched for every non-empty path that is
\* neither under the secure root (segment-wise) nor under a configured system
\* prefix; /optional/bin is not under the secure root /opt.
C7_NoRuleMatchedOutside ==
    \A c \in pmCalls :
        (/\ c.path # ""
         /\ ~UnderDir(Clean(c.path), pm.baseTransformDir)
         /\ ~IsSystemPath(pm, c.path)) => c.err = ErrNoRule

\* C8 as stated: with the default table, /usr/local/../bin/app transforms to
\* the same path as /bin/app, both with needsSymlink = TRUE.
C8_SameAsBinApp ==
    pm = NewPathMapper =>
        \A c, d \in pmCalls :
            (c.path = "/usr/local/../bin/app" /\ d.path = "/bin/app") =>
                /\ c.err = "" /\ d.err = ""
                /\ c.out = d.out
                /\ c.needsSymlink /\ d.needsSymlink

\* C8 amended: with the default table, /usr/local/../bin/app transforms to the
\* same path as its normal form /usr/bin/app, namely /opt/usr/bin/app, both
\* with needsSymlink = TRUE; /bin/app transforms to /opt/bin/app, also with
\* needsSymlink = TRUE.
C8_SameAsNormalForm ==
    pm = NewPathMapper =>
        /\ \A c, d \in pmCalls :
              (c.path = "/usr/local/../bin/app" /\ d.path = "/usr/bin/app") =>
                  /\ c.err = "" /\ d.err = ""
                  /\ c.out = d.out /\ c.out = "/opt/usr/bin/app"
                  /\ c.needsSymlink /\ d.needsSymlink
        /\ \A c \in pmCalls :
              c.path = "/bin/app" =>
                  c.err = "" /\ c.out = "/opt/bin/app" /\ c.needsSymlink

C8_Witness ==
    /\ pm = NewPathMapper
    /\ \E c, d \in pmCalls :
          /\ c.path = "/usr/local/../bin/app" /\ d.path = "/usr/bin/app"
          /\ c.out = "/opt/usr/bin/app" /\ d.out = "/opt/usr/bin/app"

\* Whether the call succeeded by applying a rule of the mapping table: the
\* path was not one the mapper takes as already transformed
AppliedRule(c) == c.err = "" /\ ~HasPrefix(Clean(c.path), pm.baseTransformDir)

\* C22: for every path on which transform succeeds by applying a mapping
\* rule, needsSymlink is true iff the normalized original path equals a
\* configured symlink directory or is a descendant of one.
C22_NeedsSymlinkDecision ==
    \A c \in pmCalls :
        AppliedRule(c) =>
            (c.needsSymlink <=>
                \E i \in 1..Len(pm.symlinkDirs) : UnderDir(Clean(c.path), pm.symlinkDirs[i]))

\* Under the default configuration the unit file needed a symlink and the
\* path next to the symlink directory did not.
C22_Witness ==
    /\ pm = NewPathMapper
    /\ \E c \in pmCalls :
          /\ c.path = "/etc/systemd/system/myapp.service"
          /\ c.out = "/opt/etc/systemd/system/myapp.service"
          /\ c.needsSymlink
    /\ \E c \in pmCalls :
          c.path = "/etc/systemdesk/" /\ c.err = "" /\ ~c.needsSymlink

\* The configured system prefixes that match the path
MatchingPrefixes(m, path) ==
    {sysDir \in DOMAIN m.systemDirs : UnderDir(Clean(path), sysDir)}

\* The longest of them (two matching prefixes of one path that are equally
\* long are the same prefix, so the lexical tie-break never decides)
LongestPrefix(m, path) ==
    CHOOSE sysDir \in MatchingPrefixes(m, path) :
        \A other \in MatchingPrefixes(m, path) : Len(other) <= Len(sysDir)

\* C28: when two configured system prefixes both match a path, transform's
\* result is deterministic: the longest prefix is the one replaced, and two
\* transform calls with the same configuration and the same input return
\* the same output.
C28_DeterministicPrefix ==
    /\ \A c, d \in pmCalls : c.path = d.path => c = d
    /\ \A c \in pmCalls :
          AppliedRule(c) =>
              c.out = ReplaceFirst(Clean(c.path), LongestPrefix(pm, c.path),
                                   pm.systemDirs[LongestPrefix(pm, c.path)])

(***************************************************************************)
(* SpecValidator: the Validator's checks applied to a bounded set of       *)
(* paths, those of the tests among them.                                   *)
(***************************************************************************)

MaxChecks == 2

\* Every pattern of the two lists, embedded in a path and ending one
TraversalMembers ==
    {encodedDotDot[i] : i \in 1..Len(encodedDotDot)}
    \cup {unicodeDotDot[i] : i \in 1..Len(unicodeDotDot)}
    \cup {NulByte}

TraversalPaths ==
    {"/opt/myapp/" \o m \o "/etc/passwd" : m \in TraversalMembers}
    \cup {"/opt/" \o m : m \in TraversalMembers}
    \cup {"", "/opt/myapp/config.json",
          "/opt/myapp/../../../etc/passwd", "/opt/myapp/..", "/..",
          "/opt/myapp/%2e%2e/%2e%2e/etc/passwd",
          "/opt/myapp/..%2f../../etc/passwd",
          "/opt/myapp//..//..//etc/passwd",
          "/opt/myapp/..\\/../etc/passwd",
          "/opt/myapp/config.json" \o NulByte \o "/../../../etc/passwd",
          "/opt/myapp/./config.json", "/opt/myapp/././config.json",
          "/opt//myapp/./config.json", "/opt/myapp/.../a..b",
          "/opt/myapp/~/etc/passwd", "/opt/myapp/$HOME/config",
          "/opt/myapp/./" \o Backtick \o "id" \o Backtick \o "/config",
          "etc/passwd", "../etc/passwd", "../../etc/passwd", "a/../../../x"}

InitValidator ==
    /\ pm = NewPathMapper
    /\ pmCalls = {}
    /\ vCalls = {}
    /\ ProcessorIdle
    /\ BuilderIdle
    /\ ScanIdle

\* A caller checks one of the input paths for traversal.
ValidateTraversalCall ==
    /\ Cardinality(vCalls) < MaxChecks
    /\ \E path \in TraversalPaths :
          vCalls' = vCalls \cup
              {[fn |-> "ValidatePathTraversal", path |-> path,
                err |-> ValidatePathTraversal(NewValidator, path)]}
    /\ UNCHANGED <<scan, builderVars, mapperVars, processorVars>>

NextValidator == ValidateTraversalCall

SpecValidator == InitValidator /\ [][NextValidator]_vars

\* Whether the path has a literal ".." element
HasDotDotSegment(path) == \E i \in 1..Len(Split(path)) : Split(path)[i] = ".."

\* C9: validatePathTraversal rejects every path that contains a literal ..
\* segment, such as /opt/myapp/../../../etc/passwd.
C9_RejectsDotDotSegment ==
    \A c \in vCalls :
        (c.fn = "ValidatePathTraversal" /\ HasDotDotSegment(c.path)) => c.err # ""

\* The catalogue of C10: a percent-encoded, overlong, fullwidth or backslash
\* pattern, a ".." element in a path with a doubled slash, or a NUL byte.
InCatalogue(path) ==
    \/ ContainsAny(path, encodedDotDot)
    \/ ContainsAny(path, unicodeDotDot)
    \/ Contains(path, "//") /\ HasDotDotSegment(path)
    \/ Contains(path, NulByte)

\* C10: validatePathTraversal rejects every path containing a member of the
\* catalogue, accepts a (non-empty) path that contains none and whose dot
\* segments are all single . segments, and so never fails merely because the
\* path contains ~, $ or a backtick.
C10_CatalogueRejected ==
    \A c \in vCalls :
        c.fn = "ValidatePathTraversal" =>
            /\ InCatalogue(c.path) => c.err # ""
            /\ (c.path # "" /\ ~InCatalogue(c.path) /\ ~HasDotDotSegment(c.path))
                  => c.err = ""

\* A fullwidth pattern was rejected and a path with backticks accepted.
C10_Witness ==
    /\ \E c \in vCalls :
          /\ c.path = "/opt/" \o FullwidthPeriod \o FullwidthPeriod \o "/"
          /\ c.err # ""
    /\ \E c \in vCalls :
          /\ c.path = "/opt/myapp/./" \o Backtick \o "id" \o Backtick \o "/config"
          /\ c.err = ""

====
